---- MODULE Spec2Model ----
(***************************************************************************)
(* A model of the AES S-box visualizer's core: GF(2^8) arithmetic, the     *)
(* affine transformation, S-box generation, the AES-128 block cipher with  *)
(* a custom S-box, PKCS7 padding and ECB message encryption.               *)
(*                                                                         *)
(* JavaScript arrays (matrix, S-box, state, block, key, byte arrays) are   *)
(* functions over 0..n-1, as the code indexes them; strings and the step   *)
(* trace are sequences.                                                    *)
(***************************************************************************)
EXTENDS Integers, Sequences, FiniteSets, TLC

VARIABLES
    matrix, constant, sbox, invSbox,          \* S-box generation
    block, key, encrypted, decrypted, steps,  \* one 16-byte block
    plaintext, keyStr, ciphertext, result,    \* a whole message
    data, padded, unpadded,                   \* PKCS7
    inverse, inverseAgain,                    \* matrix inversion
    metrics, inputMask, maxBias,              \* S-box metrics
    operand, tableInverse, computedInverse,   \* GF(2^8) inverse, two ways
    otherSbox, schedule, otherSchedule,       \* key schedules under two S-boxes
    matrixValid, isCalculatingMetrics,        \* the store's remaining fields
    ciphertextInput, decryptedText, encryptionSbox,
    timers, edits,                            \* pending setTimeout callbacks
    encryptionSteps, stepRoundKeys, currentStepIndex,  \* the store's step trace
    attempts, drawn,                          \* generateRandomValidMatrix's locals
    originalImage, encryptedImage, decryptedImage, imageKey, isProcessing,
    otherKeyStr, otherCiphertext, otherResult,  \* a second key string
    pc                                        \* what has been applied so far

vars == << matrix, constant, sbox, invSbox, block, key, encrypted, decrypted,
           steps, plaintext, keyStr, ciphertext, result, data, padded,
           unpadded, inverse, inverseAgain, metrics, inputMask, maxBias,
           operand, tableInverse, computedInverse,
           otherSbox, schedule, otherSchedule,
           matrixValid, isCalculatingMetrics, ciphertextInput, decryptedText,
           encryptionSbox, timers, edits,
           encryptionSteps, stepRoundKeys, currentStepIndex, attempts, drawn,
           originalImage, encryptedImage, decryptedImage, imageKey, isProcessing,
           otherKeyStr, otherCiphertext, otherResult, pc >>

sboxVars == << matrix, constant, sbox, invSbox >>
blockVars == << block, key, encrypted, decrypted, steps >>
msgVars == << plaintext, keyStr, ciphertext, result >>
padVars == << data, padded, unpadded >>
matVars == << inverse, inverseAgain >>
metVars == << metrics, inputMask, maxBias >>
gfVars == << operand, tableInverse, computedInverse >>
schedVars == << otherSbox, schedule, otherSchedule >>
storeVars == << matrixValid, isCalculatingMetrics, ciphertextInput, decryptedText,
               encryptionSbox, timers, edits >>
visVars == << encryptionSteps, stepRoundKeys, currentStepIndex >>
randVars == << attempts, drawn >>
imageVars == << originalImage, encryptedImage, decryptedImage, imageKey, isProcessing >>
crossVars == << otherKeyStr, otherCiphertext, otherResult >>
moreVars == << visVars, randVars, imageVars, crossVars >>
extVars == << matVars, metVars, gfVars, schedVars, storeVars, moreVars >>

(***************************************************************************)
(* Arrays and machine arithmetic                                           *)
(***************************************************************************)

\* A freshly allocated array holding f's elements: each element is computed
\* once, when the array is built (a function constructor alone is evaluated
\* again at every lookup).
NewArray(f) ==
    f @@ << >>

\* An assignment followed by the rest of the code: v is computed first, once,
\* and Rest is then evaluated with that value.
Then(v, Rest(_)) ==
    CHOOSE r \in {Rest(x) : x \in {v}} : TRUE

\* A JavaScript array literal: the tuple's i-th element at index i-1.
Arr(t) ==
    NewArray([i \in 0..(Len(t) - 1) |-> t[i + 1]])

\* The value of a variable that holds nothing yet.
None ==
    "none"

Bytes ==
    0..255

\* (v >> j) & 1
BitAt(v, j) ==
    (v \div (2 ^ j)) % 2

\* a ^ b on non-negative integers, bit by bit.
RECURSIVE XorN(_, _)
XorN(a, b) ==
    IF a = 0 THEN b
    ELSE IF b = 0 THEN a
    ELSE ((a + b) % 2) + 2 * XorN(a \div 2, b \div 2)

\* a ^ b on bytes, tabulated once.
XorTable ==
    NewArray([a \in Bytes |-> NewArray([b \in Bytes |-> XorN(a, b)])])

BXor(a, b) ==
    XorTable[a][b]

(***************************************************************************)
(* consts.ts                                                               *)
(***************************************************************************)

IRREDUCIBLE_POLY ==
    283

AES_CONSTANT ==
    99

INVERSE_TABLE ==
    Arr(<<
         0,   1, 141, 246, 203,  82, 123, 209, 232,  79,  41, 192, 176, 225, 229, 199,
       116, 180, 170,  75, 153,  43,  96,  95,  88,  63, 253, 204, 255,  64, 238, 178,
        58, 110,  90, 241,  85,  77, 168, 201, 193,  10, 152,  21,  48,  68, 162, 194,
        44,  69, 146, 108, 243,  57, 102,  66, 242,  53,  32, 111, 119, 187,  89,  25,
        29, 254,  55, 103,  45,  49, 245, 105, 167, 100, 171,  19,  84,  37, 233,   9,
       237,  92,   5, 202,  76,  36, 135, 191,  24,  62,  34, 240,  81, 236,  97,  23,
        22,  94, 175, 211,  73, 166,  54,  67, 244,  71, 145, 223,  51, 147,  33,  59,
       121, 183, 151, 133,  16, 181, 186,  60, 182, 112, 208,   6, 161, 250, 129, 130,
       131, 126, 127, 128, 150, 115, 190,  86, 155, 158, 149, 217, 247,   2, 185, 164,
       222, 106,  50, 109, 216, 138, 132, 114,  42,  20, 159, 136, 249, 220, 137, 154,
       251, 124,  46, 195, 143, 184, 101,  72,  38, 200,  18,  74, 206, 231, 210,  98,
        12, 224,  31, 239,  17, 117, 120, 113, 165, 142, 118,  61, 189, 188, 134,  87,
        11,  40,  47, 163, 218, 212, 228,  15, 169,  39,  83,   4,  27, 252, 172, 230,
       122,   7, 174,  99, 197, 219, 226, 234, 148, 139, 196, 213, 157, 248, 144, 107,
       177,  13, 214, 235, 198,  14, 207, 173,   8,  78, 215, 227,  93,  80,  30, 179,
        91,  35,  56,  52, 104,  70,   3, 140, 221, 156, 125, 160, 205,  26,  65,  28 >>)

K44_MATRIX ==
    Arr(<<
        87, 171, 213, 234, 117, 186,  93, 174 >>)

KAES_MATRIX ==
    Arr(<<
       143, 199, 227, 241, 248, 124,  62,  31 >>)

EXPECTED_SBOX44 ==
    Arr(<<
        99,  52, 165,  33, 134, 224, 231, 178, 192, 253, 100, 144,   2, 125, 168, 185,
        36, 215,  54,  40,   5, 207, 132, 136, 161, 111,  55, 175, 156,  62, 190, 169,
       237,  16,  10,   8, 201,  86, 157,  45, 199,  34,  82, 148, 172, 235, 220,  59,
       230, 188,  19, 187, 163,  17, 250, 149, 244,  46, 217,  71, 216,  20, 246, 171,
       126, 203, 133, 173, 177, 251, 221,  57,  94,  81,  97, 234, 158,  91, 151, 222,
        66, 116, 225, 209,   1,  12, 228, 193, 252,  56, 114,  95,  28,  21, 211,  63,
       104, 223, 180,  25, 131,   9, 210, 194, 138,  23, 239,  38,  80,  68, 142, 186,
        76,  43, 145,  79,  22, 128,  67, 147, 124, 241, 229,  29,  32,  30, 154, 102,
        49, 101,  50, 205, 198,  13, 150,  53, 174,  44,  58,  88, 118, 200, 191, 162,
       113, 197,   7, 236,  15, 140,  24,  90, 152, 195, 123,  39, 226, 218, 112, 249,
        73, 206,  77, 108,  14, 232,   6, 212, 167, 122, 189, 127,   4,   3,  78,  47,
        92,  42, 213, 233,  65, 115,  27, 166, 245,  89, 143, 196, 106,  61, 179,  98,
       117,  51,  26, 139, 164,  48, 255, 160, 202, 240, 183, 182,   0,  96,  72,  84,
       176,  74, 227, 120,  18, 243, 129, 107, 109, 219,  69, 103, 208, 181, 184, 146,
        85,  11, 155,  60, 238, 247,  83,  31, 137, 170, 204, 214,  35,  75, 130, 254,
        93,  37,  70, 121, 110,  64, 159, 242, 141, 135, 153, 119, 248,  87, 105,  41 >>)

AES_SBOX ==
    Arr(<<
        99, 124, 119, 123, 242, 107, 111, 197,  48,   1, 103,  43, 254, 215, 171, 118,
       202, 130, 201, 125, 250,  89,  71, 240, 173, 212, 162, 175, 156, 164, 114, 192,
       183, 253, 147,  38,  54,  63, 247, 204,  52, 165, 229, 241, 113, 216,  49,  21,
         4, 199,  35, 195,  24, 150,   5, 154,   7,  18, 128, 226, 235,  39, 178, 117,
         9, 131,  44,  26,  27, 110,  90, 160,  82,  59, 214, 179,  41, 227,  47, 132,
        83, 209,   0, 237,  32, 252, 177,  91, 106, 203, 190,  57,  74,  76,  88, 207,
       208, 239, 170, 251,  67,  77,  51, 133,  69, 249,   2, 127,  80,  60, 159, 168,
        81, 163,  64, 143, 146, 157,  56, 245, 188, 182, 218,  33,  16, 255, 243, 210,
       205,  12,  19, 236,  95, 151,  68,  23, 196, 167, 126,  61, 100,  93,  25, 115,
        96, 129,  79, 220,  34,  42, 144, 136,  70, 238, 184,  20, 222,  94,  11, 219,
       224,  50,  58,  10,  73,   6,  36,  92, 194, 211, 172,  98, 145, 149, 228, 121,
       231, 200,  55, 109, 141, 213,  78, 169, 108,  86, 244, 234, 101, 122, 174,   8,
       186, 120,  37,  46,  28, 166, 180, 198, 232, 221, 116,  31,  75, 189, 139, 138,
       112,  62, 181, 102,  72,   3, 246,  14,  97,  53,  87, 185, 134, 193,  29, 158,
       225, 248, 152,  17, 105, 217, 142, 148, 155,  30, 135, 233, 206,  85,  40, 223,
       140, 161, 137,  13, 191, 230,  66, 104,  65, 153,  45,  15, 176,  84, 187,  22 >>)

RCON ==
    Arr(<<
         1,   2,   4,   8,  16,  32,  64, 128,  27,  54 >>)
(***************************************************************************)
(* galois.ts: GF(2^8) with the reducing polynomial x^8 + x^4 + x^3 + x + 1 *)
(***************************************************************************)

\* The loop of gfMultiply: eight rounds of shift-and-add with reduction.
RECURSIVE gfMultiplyLoop(_, _, _, _)
gfMultiplyLoop(p, tempA, tempB, i) ==
    IF i = 8 THEN p
    ELSE LET p1 == IF tempB % 2 = 1 THEN BXor(p, tempA) ELSE p
             hiBit == tempA >= 128
             shifted == (tempA * 2) % 256
             a1 == IF hiBit THEN BXor(shifted, IRREDUCIBLE_POLY % 256) ELSE shifted
         IN  gfMultiplyLoop(p1, a1, tempB \div 2, i + 1)

gfMultiply(a, b) ==
    gfMultiplyLoop(0, a, b, 0)

gfInverse(byte) ==
    INVERSE_TABLE[byte % 256]

\* The loop of gfInverseComputed from iteration i on: square, then multiply
\* by byte, six times in all.
RECURSIVE squareAndMultiply(_, _, _)
squareAndMultiply(res, byte, i) ==
    IF i = 6 THEN res
    ELSE Then(gfMultiply(gfMultiply(res, res), byte),
              LAMBDA next : squareAndMultiply(next, byte, i + 1))

\* Variant of gfInverseComputed: without the final squaring (byte^127).
gfInverseComputedUnsquared(byte) ==
    IF byte = 0 THEN 0
    ELSE squareAndMultiply(byte, byte, 0)

\* byte^254: the loop, then one more squaring.
gfInverseComputed(byte) ==
    IF byte = 0 THEN 0
    ELSE Then(squareAndMultiply(byte, byte, 0),
              LAMBDA res : gfMultiply(res, res))

xtime(byte) ==
    LET shifted == (byte * 2) % 256
    IN  IF byte >= 128 THEN BXor(shifted, 27) ELSE shifted

gfMultiplyConstant(byte, multiplier) ==
    CASE multiplier = 1 -> byte
      [] multiplier = 2 -> xtime(byte)
      [] multiplier = 3 -> BXor(xtime(byte), byte)
      [] multiplier = 9 -> BXor(xtime(xtime(xtime(byte))), byte)
      [] multiplier = 11 -> BXor(BXor(xtime(xtime(xtime(byte))), xtime(byte)), byte)
      [] multiplier = 13 -> BXor(BXor(xtime(xtime(xtime(byte))), xtime(xtime(byte))), byte)
      [] multiplier = 14 -> BXor(BXor(xtime(xtime(xtime(byte))), xtime(xtime(byte))), xtime(byte))
      [] OTHER -> gfMultiply(byte, multiplier)

(***************************************************************************)
(* affine.ts                                                               *)
(***************************************************************************)

\* Variant of affineRowBit: the row is read from its most significant bit.
RECURSIVE affineRowBitMsbFirst(_, _, _, _)
affineRowBitMsbFirst(rowByte, byteVal, j, bit) ==
    IF j = 8 THEN bit
    ELSE affineRowBitMsbFirst(rowByte, byteVal, j + 1,
             IF BitAt(rowByte, 7 - j) = 1 /\ BitAt(byteVal, j) = 1 THEN 1 - bit ELSE bit)

\* The inner loop of applyAffine: bit ^= 1 for every column j where the
\* matrix row and the input both have bit j set.
RECURSIVE affineRowBit(_, _, _, _)
affineRowBit(rowByte, byteVal, j, bit) ==
    IF j = 8 THEN bit
    ELSE affineRowBit(rowByte, byteVal, j + 1,
             IF BitAt(rowByte, j) = 1 /\ BitAt(byteVal, j) = 1 THEN 1 - bit ELSE bit)

\* The outer loop of applyAffine: result |= (1 << i) when row i's bit is 1.
RECURSIVE affineRows(_, _, _, _)
affineRows(byteVal, m, i, res) ==
    IF i = 8 THEN res
    ELSE affineRows(byteVal, m, i + 1,
             IF affineRowBit(m[i], byteVal, 0, 0) = 1 THEN res + 2 ^ i ELSE res)

applyAffine(byteVal, m, c) ==
    BXor(affineRows(byteVal, m, 0, 0), c)

\* toggleMatrixBit: matrix[row] ^= (1 << col)
toggleMatrixBit(m, row, col) ==
    [m EXCEPT ![row] = BXor(m[row], 2 ^ col)]

\* The 2D bit array isMatrixValid eliminates on: m[i][j] = (matrix[i] >> j) & 1
matrixBits(m) ==
    NewArray([i \in 0..7 |-> NewArray([j \in 0..7 |-> BitAt(m[i], j)])])

\* Variant of pivotRowFrom: the search restarts at row 0.
pivotRowFromTop(bits, col, from) ==
    LET rows == {row \in 0..7 : bits[row][col] = 1}
    IN  IF rows = {} THEN -1
        ELSE CHOOSE row \in rows : \A other \in rows : row <= other

\* The first row at or below `from` with a 1 in column col, or -1.
pivotRowFrom(bits, col, from) ==
    LET rows == {row \in from..7 : bits[row][col] = 1}
    IN  IF rows = {} THEN -1
        ELSE CHOOSE row \in rows : \A other \in rows : row <= other

\* [m[rank], m[pivotRow]] = [m[pivotRow], m[rank]]
swapRows(bits, a, b) ==
    [bits EXCEPT ![a] = bits[b], ![b] = bits[a]]

\* XOR row `rank` into every other row with a 1 in column col.
eliminateColumn(bits, col, rank) ==
    NewArray([row \in 0..7 |->
        IF row # rank /\ bits[row][col] = 1
        THEN NewArray([c \in 0..7 |-> (bits[row][c] + bits[rank][c]) % 2])
        ELSE bits[row]])

\* The column loop of isMatrixValid; a column without a pivot is skipped.
RECURSIVE matrixRank(_, _, _)
matrixRank(bits, col, rank) ==
    IF col = 8 THEN rank
    ELSE LET pivotRow == pivotRowFrom(bits, col, rank)
         IN  IF pivotRow = -1 THEN matrixRank(bits, col + 1, rank)
             ELSE matrixRank(eliminateColumn(swapRows(bits, rank, pivotRow), col, rank),
                             col + 1, rank + 1)

isMatrixValid(m) ==
    matrixRank(matrixBits(m), 0, 0) = 8

(***************************************************************************)
(* sbox.ts                                                                 *)
(***************************************************************************)

\* An array slot never written (new Array(256) leaves holes).
Undefined ==
    -1

generateSBox(m, c) ==
    NewArray([x \in 0..255 |-> applyAffine(INVERSE_TABLE[x], m, c)])

\* Variant of inverseLoop: index and value swapped (invSbox[i] = sbox[i]).
RECURSIVE inverseLoopSwapped(_, _, _, _)
inverseLoopSwapped(table, i, to, inv) ==
    IF i = to THEN inv
    ELSE inverseLoopSwapped(table, i + 1, to, [inv EXCEPT ![i] = table[i]])

\* for (i = from; i < to; i++) invSbox[sbox[i]] = i;  later writes overwrite.
RECURSIVE inverseLoop(_, _, _, _)
inverseLoop(table, i, to, inv) ==
    IF i = to THEN inv
    ELSE inverseLoop(table, i + 1, to, [inv EXCEPT ![table[i]] = i])

\* The 256 iterations, run as 16 stretches of 16 to bound the nesting depth.
RECURSIVE inverseStretches(_, _, _)
inverseStretches(table, i, inv) ==
    IF i = 256 THEN inv
    ELSE Then(inverseLoop(table, i, i + 16, inv),
              LAMBDA next : inverseStretches(table, i + 16, next))

\* Variant of generateInverseSBox: the first write to an entry is kept.
generateInverseSBoxFirstWins(table) ==
    NewArray([y \in 0..255 |->
        LET xs == {x \in 0..255 : table[x] = y}
        IN  IF xs = {} THEN Undefined
            ELSE CHOOSE x \in xs : \A other \in xs : x <= other])

generateInverseSBox(table) ==
    inverseStretches(table, 0, NewArray([y \in 0..255 |-> Undefined]))

\* The loop of isSBoxBijective over i in from..to-1: it stops (ok = FALSE)
\* at a value out of range or seen before, and otherwise adds to `seen`.
RECURSIVE bijectiveLoop(_, _, _, _)
bijectiveLoop(table, i, to, seen) ==
    IF i = to THEN [ok |-> TRUE, seen |-> seen]
    ELSE IF table[i] < 0 \/ table[i] > 255 THEN [ok |-> FALSE, seen |-> seen]
    ELSE IF table[i] \in seen THEN [ok |-> FALSE, seen |-> seen]
    ELSE bijectiveLoop(table, i + 1, to, seen \cup {table[i]})

\* The 256 iterations, run as 16 stretches of 16 to bound the nesting depth.
RECURSIVE bijectiveStretches(_, _, _)
bijectiveStretches(table, i, seen) ==
    IF i = 256 THEN Cardinality(seen) = 256
    ELSE LET part == bijectiveLoop(table, i, i + 16, seen)
         IN  IF part.ok THEN bijectiveStretches(table, i + 16, part.seen) ELSE FALSE

isSBoxBijective(table) ==
    IF DOMAIN table # 0..255 THEN FALSE
    ELSE bijectiveStretches(table, 0, {})

(***************************************************************************)
(* aes.ts: AES-128 over a 4x4 state, state[row][col], column-major bytes   *)
(***************************************************************************)

MIX_COLUMNS_MATRIX ==
    Arr(<< Arr(<< 2, 3, 1, 1 >>),
           Arr(<< 1, 2, 3, 1 >>),
           Arr(<< 1, 1, 2, 3 >>),
           Arr(<< 3, 1, 1, 2 >>) >>)

INV_MIX_COLUMNS_MATRIX ==
    Arr(<< Arr(<< 14, 11, 13, 9 >>),
           Arr(<< 9, 14, 11, 13 >>),
           Arr(<< 13, 9, 14, 11 >>),
           Arr(<< 11, 13, 9, 14 >>) >>)

\* state[i % 4][floor(i / 4)] = bytes[i]
bytesToState(bytes) ==
    NewArray([row \in 0..3 |-> NewArray([col \in 0..3 |-> bytes[4 * col + row]])])

\* bytes[i] = state[i % 4][floor(i / 4)]
stateToBytes(state) ==
    NewArray([i \in 0..15 |-> state[i % 4][i \div 4]])

subBytes(state, table) ==
    NewArray([i \in 0..3 |-> NewArray([j \in 0..3 |-> table[state[i][j]]])])

invSubBytes(state, invTable) ==
    subBytes(state, invTable)

\* Row r is rotated left by r; row 0 is not touched.
shiftRows(state) ==
    NewArray([row \in 0..3 |->
        IF row = 0 THEN state[row]
        ELSE NewArray([col \in 0..3 |-> state[row][(col + row) % 4]])])

invShiftRows(state) ==
    NewArray([row \in 0..3 |->
        IF row = 0 THEN state[row]
        ELSE NewArray([col \in 0..3 |-> state[row][(col - row + 4) % 4]])])

\* sum ^= gfMultiplyConstant(state[k][col], coeff[row][k]) for k = 0..3
RECURSIVE columnSum(_, _, _, _, _, _)
columnSum(state, coeff, row, col, k, sum) ==
    IF k = 4 THEN sum
    ELSE columnSum(state, coeff, row, col, k + 1,
             BXor(sum, gfMultiplyConstant(state[k][col], coeff[row][k])))

mixColumns(state) ==
    NewArray([row \in 0..3 |-> NewArray([col \in 0..3 |->
        columnSum(state, MIX_COLUMNS_MATRIX, row, col, 0, 0)])])

invMixColumns(state) ==
    NewArray([row \in 0..3 |-> NewArray([col \in 0..3 |->
        columnSum(state, INV_MIX_COLUMNS_MATRIX, row, col, 0, 0)])])

addRoundKey(state, roundKey) ==
    NewArray([i \in 0..3 |-> NewArray([j \in 0..3 |-> BXor(state[i][j], roundKey[i][j])])])

\* Variant of nextWord: the rotated word is not substituted.
nextWordUnsubstituted(W, i, table) ==
    LET prev == W[i - 1]
        temp == IF i % 4 = 0
                THEN LET rot == Arr(<< prev[1], prev[2], prev[3], prev[0] >>)
                     IN  [rot EXCEPT ![0] = BXor(rot[0], RCON[(i \div 4) - 1])]
                ELSE prev
    IN  NewArray([j \in 0..3 |-> BXor(W[i - 4][j], temp[j])])

\* One word of the key schedule from the words W so far (W[i] is the i-th).
nextWord(W, i, table) ==
    LET prev == W[i - 1]
        temp == IF i % 4 = 0
                THEN LET rot == Arr(<< prev[1], prev[2], prev[3], prev[0] >>)
                         sub == NewArray([j \in 0..3 |-> table[rot[j]]])
                     IN  [sub EXCEPT ![0] = BXor(sub[0], RCON[(i \div 4) - 1])]
                ELSE prev
    IN  NewArray([j \in 0..3 |-> BXor(W[i - 4][j], temp[j])])

\* W.push(word)
push(W, n, word) ==
    NewArray([j \in 0..n |-> IF j = n THEN word ELSE W[j]])

\* Four iterations of the loop for (i = Nk; i < Nb * (Nr + 1); i++): the words
\* 4*round .. 4*round+3 of one round key are pushed onto W.
expandRound(W, round, table) ==
    LET i == 4 * round
        W1 == push(W, i, nextWord(W, i, table))
        W2 == push(W1, i + 1, nextWord(W1, i + 1, table))
        W3 == push(W2, i + 2, nextWord(W2, i + 2, table))
    IN  push(W3, i + 3, nextWord(W3, i + 3, table))

\* The whole loop, i = 4..43, round key by round key.
RECURSIVE expandWords(_, _, _)
expandWords(W, round, table) ==
    IF round > 10 THEN W
    ELSE Then(expandRound(W, round, table),
              LAMBDA next : expandWords(next, round + 1, table))

\* The 11 round keys: roundKey[row][col] = W[round * 4 + col][row]
keyExpansion(k, table) ==
    LET W0 == NewArray([i \in 0..3 |->
                  Arr(<< k[4 * i], k[4 * i + 1], k[4 * i + 2], k[4 * i + 3] >>)])
        W == expandWords(W0, 1, table)
    IN  NewArray([round \in 0..10 |->
            NewArray([row \in 0..3 |->
                NewArray([col \in 0..3 |-> W[round * 4 + col][row]])])])

\* One of the rounds 1..9 of encryptBlock.
encryptRound(state, roundKey, table) ==
    addRoundKey(mixColumns(shiftRows(subBytes(state, table))), roundKey)

\* for (round = 1; round < 10; round++) state = ...
RECURSIVE encryptRounds(_, _, _, _)
encryptRounds(state, roundKeys, table, round) ==
    IF round = 10 THEN state
    ELSE Then(encryptRound(state, roundKeys[round], table),
              LAMBDA next : encryptRounds(next, roundKeys, table, round + 1))

encryptBlock(blk, k, table) ==
    Then(keyExpansion(k, table), LAMBDA roundKeys :
    Then(addRoundKey(bytesToState(blk), roundKeys[0]), LAMBDA s0 :
    Then(encryptRounds(s0, roundKeys, table, 1), LAMBDA s9 :
        stateToBytes(addRoundKey(shiftRows(subBytes(s9, table)), roundKeys[10])))))

\* Variant of decryptRound: InvMixColumns before AddRoundKey.
decryptRoundMixFirst(state, roundKey, invTable) ==
    invSubBytes(invShiftRows(addRoundKey(invMixColumns(state), roundKey)), invTable)

\* One of the rounds 9..1 of decryptBlock.
decryptRound(state, roundKey, invTable) ==
    invSubBytes(invShiftRows(invMixColumns(addRoundKey(state, roundKey))), invTable)

\* for (round = 9; round >= 1; round--) state = ...
RECURSIVE decryptRounds(_, _, _, _)
decryptRounds(state, roundKeys, invTable, round) ==
    IF round = 0 THEN state
    ELSE Then(decryptRound(state, roundKeys[round], invTable),
              LAMBDA next : decryptRounds(next, roundKeys, invTable, round - 1))

decryptBlock(blk, k, table) ==
    Then(generateInverseSBox(table), LAMBDA invTable :
    Then(keyExpansion(k, table), LAMBDA roundKeys :
    Then(invSubBytes(invShiftRows(addRoundKey(bytesToState(blk), roundKeys[10])),
                     invTable), LAMBDA s10 :
    Then(decryptRounds(s10, roundKeys, invTable, 9), LAMBDA s1 :
        stateToBytes(addRoundKey(s1, roundKeys[0]))))))

\* One entry of the trace; addRoundKey entries also carry the round key.
step(round, operation, state) ==
    [round |-> round, operation |-> operation, state |-> state]

keyStep(round, state, roundKey) ==
    [round |-> round, operation |-> "addRoundKey", state |-> state, roundKey |-> roundKey]

\* Variant of stepRound: the shiftRows entry is pushed after mixColumns has
\* run, so it shows the state after mixColumns.
stepRoundAliased(run, roundKey, table, round) ==
    LET afterSub == subBytes(run.state, table)
        afterShift == shiftRows(afterSub)
        afterMix == mixColumns(afterShift)
        afterKey == addRoundKey(afterMix, roundKey)
    IN  [state |-> afterKey,
         steps |-> run.steps \o << step(round, "subBytes", afterSub),
                                   step(round, "shiftRows", afterMix),
                                   step(round, "mixColumns", afterMix),
                                   keyStep(round, afterKey, roundKey) >>]

\* One of the rounds 1..9 of encryptBlockWithSteps: after each operation
\* steps.push({ round, operation, state: cloneState(state) }).  run holds
\* the running state and the steps pushed so far.
stepRound(run, roundKey, table, round) ==
    LET afterSub == subBytes(run.state, table)
        afterShift == shiftRows(afterSub)
        afterMix == mixColumns(afterShift)
        afterKey == addRoundKey(afterMix, roundKey)
    IN  [state |-> afterKey,
         steps |-> run.steps \o << step(round, "subBytes", afterSub),
                                   step(round, "shiftRows", afterShift),
                                   step(round, "mixColumns", afterMix),
                                   keyStep(round, afterKey, roundKey) >>]

\* for (round = 1; round < 10; round++)
RECURSIVE stepRounds(_, _, _, _)
stepRounds(run, roundKeys, table, round) ==
    IF round = 10 THEN run
    ELSE Then(stepRound(run, roundKeys[round], table, round),
              LAMBDA next : stepRounds(next, roundKeys, table, round + 1))

\* Variant of stepLastRound: round 10 runs MixColumns like the rounds before.
stepLastRoundWithMix(run, roundKey, table) ==
    stepRound(run, roundKey, table, 10)

\* Round 10 of encryptBlockWithSteps: no MixColumns.
stepLastRound(run, roundKey, table) ==
    LET afterSub == subBytes(run.state, table)
        afterShift == shiftRows(afterSub)
        afterKey == addRoundKey(afterShift, roundKey)
    IN  [state |-> afterKey,
         steps |-> run.steps \o << step(10, "subBytes", afterSub),
                                   step(10, "shiftRows", afterShift),
                                   keyStep(10, afterKey, roundKey) >>]

\* Variant of stepInitial: the first entry is pushed after AddRoundKey has
\* run, so it shows the state after AddRoundKey.
stepInitialAfterKey(blk, roundKey) ==
    LET initial == bytesToState(blk)
        afterKey == addRoundKey(initial, roundKey)
    IN  [state |-> afterKey,
         steps |-> << step(0, "initial", afterKey), keyStep(0, afterKey, roundKey) >>]

\* The round-0 entries: the input state, then the state after AddRoundKey.
stepInitial(blk, roundKey) ==
    LET initial == bytesToState(blk)
        afterKey == addRoundKey(initial, roundKey)
    IN  [state |-> afterKey,
         steps |-> << step(0, "initial", initial), keyStep(0, afterKey, roundKey) >>]

encryptBlockWithSteps(blk, k, table) ==
    Then(keyExpansion(k, table), LAMBDA roundKeys :
    Then(stepInitial(blk, roundKeys[0]), LAMBDA r0 :
    Then(stepRounds(r0, roundKeys, table, 1), LAMBDA r9 :
    Then(stepLastRound(r9, roundKeys[10], table), LAMBDA r10 :
        [ciphertext |-> stateToBytes(r10.state),
         steps |-> r10.steps,
         roundKeys |-> roundKeys]))))

(***************************************************************************)
(* aes.ts: padding and whole messages.  A Uint8Array is an array of bytes  *)
(* indexed from 0; a string is a sequence of UTF-16 code units.            *)
(***************************************************************************)

Length(array) ==
    Cardinality(DOMAIN array)

\* array.slice(from, to), with to clamped to the length as slice does.
slice(array, from, to) ==
    LET end == IF to > Length(array) THEN Length(array) ELSE to
    IN  NewArray([i \in 0..(end - from - 1) |-> array[from + i]])

\* const blockSize = 16
blockSize ==
    16

\* Variant of pkcs7Pad: no padding block when the length is already aligned.
pkcs7PadNoFullBlock(d) ==
    LET padLen == (blockSize - (Length(d) % blockSize)) % blockSize
    IN  NewArray([i \in 0..(Length(d) + padLen - 1) |->
            IF i < Length(d) THEN d[i] ELSE padLen])

\* padded.set(data); padded.fill(padLen, data.length)
pkcs7Pad(d) ==
    LET padLen == blockSize - (Length(d) % blockSize)
    IN  NewArray([i \in 0..(Length(d) + padLen - 1) |->
            IF i < Length(d) THEN d[i] ELSE padLen])

\* What a call that can throw produces: the value returned or the Error.
Return(value) ==
    [ok |-> TRUE, value |-> value, error |-> None]

Throw(message) ==
    [ok |-> FALSE, value |-> None, error |-> message]

\* Variant of pkcs7Unpad: the padding bytes are not verified.
pkcs7UnpadUnverified(d) ==
    IF Length(d) = 0 THEN Throw("Invalid padding: empty data")
    ELSE LET padLen == d[Length(d) - 1]
         IN  IF padLen > 16 \/ padLen = 0 THEN Throw("Invalid padding length")
             ELSE IF padLen > Length(d) THEN Throw("Padding length exceeds data length")
             ELSE Return(slice(d, 0, Length(d) - padLen))

pkcs7Unpad(d) ==
    IF Length(d) = 0 THEN Throw("Invalid padding: empty data")
    ELSE LET padLen == d[Length(d) - 1]
         IN  IF padLen > 16 \/ padLen = 0 THEN Throw("Invalid padding length")
             ELSE IF padLen > Length(d) THEN Throw("Padding length exceeds data length")
             ELSE IF \E i \in (Length(d) - padLen)..(Length(d) - 1) : d[i] # padLen
                  THEN Throw("Invalid padding byte")
             ELSE Return(slice(d, 0, Length(d) - padLen))

(***************************************************************************)
(* TextEncoder and TextDecoder (UTF-8), as the platform defines them       *)
(***************************************************************************)

isHighSurrogate(unit) ==
    unit >= 55296 /\ unit <= 56319

isLowSurrogate(unit) ==
    unit >= 56320 /\ unit <= 57343

\* The UTF-8 bytes of one code point.
utf8Bytes(cp) ==
    IF cp < 128 THEN << cp >>
    ELSE IF cp < 2048 THEN << 192 + (cp \div 64), 128 + (cp % 64) >>
    ELSE IF cp < 65536
         THEN << 224 + (cp \div 4096), 128 + ((cp \div 64) % 64), 128 + (cp % 64) >>
    ELSE << 240 + (cp \div 262144), 128 + ((cp \div 4096) % 64),
            128 + ((cp \div 64) % 64), 128 + (cp % 64) >>

\* TextEncoder.encode from code unit i on: a surrogate pair is one code
\* point, a lone surrogate is replaced by U+FFFD.
RECURSIVE encodeFrom(_, _, _)
encodeFrom(str, i, out) ==
    IF i > Len(str) THEN out
    ELSE IF isHighSurrogate(str[i]) /\ i < Len(str) /\ isLowSurrogate(str[i + 1])
         THEN encodeFrom(str, i + 2,
                  out \o utf8Bytes(65536 + (str[i] - 55296) * 1024 + (str[i + 1] - 56320)))
    ELSE IF isHighSurrogate(str[i]) \/ isLowSurrogate(str[i])
         THEN encodeFrom(str, i + 1, out \o utf8Bytes(65533))
    ELSE encodeFrom(str, i + 1, out \o utf8Bytes(str[i]))

encode(str) ==
    Arr(encodeFrom(str, 1, << >>))

\* The decoder's state between two bytes.
decoderStart(out) ==
    [cp |-> 0, needed |-> 0, seen |-> 0, lower |-> 128, upper |-> 191, out |-> out]

\* The UTF-8 decoder on a lead byte (no bytes needed).
decodeLead(b, st) ==
    IF b <= 127 THEN decoderStart(Append(st.out, b))
    ELSE IF b >= 194 /\ b <= 223 THEN [st EXCEPT !.needed = 1, !.cp = b % 32]
    ELSE IF b >= 224 /\ b <= 239
         THEN [st EXCEPT !.needed = 2, !.cp = b % 16,
                         !.lower = IF b = 224 THEN 160 ELSE 128,
                         !.upper = IF b = 237 THEN 159 ELSE 191]
    ELSE IF b >= 240 /\ b <= 244
         THEN [st EXCEPT !.needed = 3, !.cp = b % 8,
                         !.lower = IF b = 240 THEN 144 ELSE 128,
                         !.upper = IF b = 244 THEN 143 ELSE 191]
    ELSE decoderStart(Append(st.out, 65533))

\* The UTF-8 decoder on one byte: a byte that cannot continue the sequence
\* ends it with U+FFFD and is decoded again as a lead byte.
decodeByte(b, st) ==
    IF st.needed = 0 THEN decodeLead(b, st)
    ELSE IF b < st.lower \/ b > st.upper
         THEN decodeLead(b, decoderStart(Append(st.out, 65533)))
    ELSE IF st.seen + 1 = st.needed
         THEN decoderStart(Append(st.out, st.cp * 64 + (b % 64)))
    ELSE [st EXCEPT !.cp = st.cp * 64 + (b % 64), !.seen = st.seen + 1,
                    !.lower = 128, !.upper = 191]

\* The code points of a byte array; an unfinished sequence at the end of
\* the input gives U+FFFD.
RECURSIVE decodeFrom(_, _, _)
decodeFrom(bytes, i, st) ==
    IF i = Length(bytes)
    THEN IF st.needed = 0 THEN st.out ELSE Append(st.out, 65533)
    ELSE decodeFrom(bytes, i + 1, decodeByte(bytes[i], st))

\* The UTF-16 code units of one code point.
codeUnits(cp) ==
    IF cp < 65536 THEN << cp >>
    ELSE << 55296 + ((cp - 65536) \div 1024), 56320 + ((cp - 65536) % 1024) >>

RECURSIVE toString(_, _, _)
toString(points, i, out) ==
    IF i > Len(points) THEN out
    ELSE toString(points, i + 1, out \o codeUnits(points[i]))

\* new TextDecoder().decode: ignoreBOM is false, so a byte order mark at the
\* start of the input is not part of the string returned.
decode(bytes) ==
    LET points == decodeFrom(bytes, 0, decoderStart(<< >>))
    IN  IF Len(points) > 0 /\ points[1] = 65279
        THEN toString(Tail(points), 1, << >>)
        ELSE toString(points, 1, << >>)

\* Variant of padEndSlice: the key is padded with spaces.
padEndSliceSpaces(keyString) ==
    [i \in 1..16 |-> IF i <= Len(keyString) THEN keyString[i] ELSE 32]

\* keyStr.padEnd(16, '\0').slice(0, 16)
padEndSlice(keyString) ==
    [i \in 1..16 |-> IF i <= Len(keyString) THEN keyString[i] ELSE 0]

\* Variant of encryptBlocks: each block is XORed with the previous ciphertext
\* block before it is encrypted (chaining).
RECURSIVE chainedBlock(_, _, _, _)
chainedBlock(d, k, table, b) ==
    IF b = 0 THEN encryptBlock(slice(d, 0, 16), k, table)
    ELSE Then(chainedBlock(d, k, table, b - 1),
              LAMBDA prev : encryptBlock(NewArray([i \in 0..15 |->
                                BXor(d[16 * b + i], prev[i])]), k, table))

encryptBlocksChained(d, k, table) ==
    LET blocks == NewArray([b \in 0..((Length(d) \div 16) - 1) |->
                      chainedBlock(d, k, table, b)])
    IN  NewArray([i \in 0..(Length(d) - 1) |-> blocks[i \div 16][i % 16]])

\* for (i = 0; i < data.length; i += 16) result.set(encryptBlock(...), i)
encryptBlocks(d, k, table) ==
    LET blocks == NewArray([b \in 0..((Length(d) \div 16) - 1) |->
                      encryptBlock(slice(d, 16 * b, 16 * b + 16), k, table)])
    IN  NewArray([i \in 0..(Length(d) - 1) |-> blocks[i \div 16][i % 16]])

\* for (i = 0; i < ciphertext.length; i += 16) result.set(decryptBlock(...), i)
decryptBlocks(c, k, table) ==
    LET blocks == NewArray([b \in 0..((Length(c) \div 16) - 1) |->
                      decryptBlock(slice(c, 16 * b, 16 * b + 16), k, table)])
    IN  NewArray([i \in 0..(Length(c) - 1) |-> blocks[i \div 16][i % 16]])

encrypt(text, keyString, table) ==
    encryptBlocks(pkcs7Pad(encode(text)), encode(padEndSlice(keyString)), table)

\* The ciphertext length is a multiple of 16.  An Error thrown by
\* pkcs7Unpad leaves decrypt uncaught.
decrypt(c, keyString, table) ==
    LET unpadResult == pkcs7Unpad(decryptBlocks(c, encode(padEndSlice(keyString)), table))
    IN  IF unpadResult.ok THEN Return(decode(unpadResult.value)) ELSE unpadResult

(***************************************************************************)
(* affine.ts: invertMatrix                                                 *)
(***************************************************************************)

\* The augmented matrix [A | I]: sixteen bits per row.
augmented(m) ==
    NewArray([i \in 0..7 |-> NewArray([j \in 0..15 |->
        IF j < 8 THEN BitAt(m[i], j) ELSE IF i = j - 8 THEN 1 ELSE 0])])

\* XOR row `col` into every other row with a 1 in column col, 16 bits wide.
eliminateAugmented(aug, col) ==
    NewArray([row \in 0..7 |->
        IF row # col /\ aug[row][col] = 1
        THEN NewArray([c \in 0..15 |-> (aug[row][c] + aug[col][c]) % 2])
        ELSE aug[row]])

\* What invertMatrix returns: null, or the rows of the inverse.
Null ==
    [null |-> TRUE, rows |-> << >>]

Rows(rows) ==
    [null |-> FALSE, rows |-> rows]

\* The sum of eight bit weights.
BitSum(weights) ==
    weights[0] + weights[1] + weights[2] + weights[3]
        + weights[4] + weights[5] + weights[6] + weights[7]

\* Variant of extractInverse: the bits of a row are written from bit 7 down.
extractInverseReversed(aug) ==
    NewArray([i \in 0..7 |-> BitSum([j \in 0..7 |-> aug[i][8 + j] * (2 ^ (7 - j))])])

\* byte |= (1 << j) for every 1 in the right half of row i.
extractInverse(aug) ==
    NewArray([i \in 0..7 |-> BitSum([j \in 0..7 |-> aug[i][8 + j] * (2 ^ j)])])

\* Variant of invertColumns: a column without a pivot is skipped, as in
\* isMatrixValid, instead of ending the inversion.
RECURSIVE invertColumnsSkipping(_, _)
invertColumnsSkipping(aug, col) ==
    IF col = 8 THEN Rows(extractInverse(aug))
    ELSE LET pivotRow == pivotRowFrom(aug, col, col)
         IN  IF pivotRow = -1 THEN invertColumnsSkipping(aug, col + 1)
             ELSE invertColumnsSkipping(
                      eliminateAugmented(swapRows(aug, col, pivotRow), col), col + 1)

\* The column loop of invertMatrix; a column without a pivot returns null.
RECURSIVE invertColumns(_, _)
invertColumns(aug, col) ==
    IF col = 8 THEN Rows(extractInverse(aug))
    ELSE LET pivotRow == pivotRowFrom(aug, col, col)
         IN  IF pivotRow = -1 THEN Null
             ELSE invertColumns(
                      eliminateAugmented(swapRows(aug, col, pivotRow), col), col + 1)

invertMatrix(m) ==
    invertColumns(augmented(m), 0)
(***************************************************************************)
(* metrics.ts                                                              *)
(*                                                                         *)
(* The metrics that are quotients (SAC, BIC-SAC, LAP, DAP) are kept as     *)
(* exact fractions num/den; NL and BIC-NL are integers because every Walsh *)
(* coefficient over 256 inputs is even.                                    *)
(***************************************************************************)

\* a & b on bytes: a + b = (a ^ b) + 2 * (a & b).
BAnd(a, b) ==
    (a + b - BXor(a, b)) \div 2

\* Math.abs
Abs(n) ==
    IF n < 0 THEN -n ELSE n

\* The largest / smallest element of a non-empty set of integers.
Max(S) ==
    CHOOSE m \in S : \A n \in S : n <= m

Min(S) ==
    CHOOSE m \in S : \A n \in S : m <= n

\* f[from] + ... + f[to - 1], added by halves to bound the nesting depth.
RECURSIVE SumOver(_, _, _)
SumOver(f, from, to) ==
    IF to = from THEN 0
    ELSE IF to = from + 1 THEN f[from]
    ELSE SumOver(f, from, (from + to) \div 2) + SumOver(f, (from + to) \div 2, to)

\* A quotient num / den, kept exact.
Ratio(num, den) ==
    [num |-> num, den |-> den]

\* while (num) { count += num & 1; num >>>= 1; }
RECURSIVE hammingWeight(_)
hammingWeight(n) ==
    IF n = 0 THEN 0 ELSE (n % 2) + hammingWeight(n \div 2)

\* hammingWeight(v) & 1 on bytes, tabulated once.
ParityTable ==
    NewArray([v \in Bytes |-> hammingWeight(v) % 2])

\* A 0/1-valued array over the 256 inputs, held as the inputs where it is 1
\* and the inputs where it is 0.
truthTableOf(bits) ==
    [ones |-> {x \in Bytes : bits[x] = 1}, zeros |-> {x \in Bytes : bits[x] = 0}]

\* hammingWeight(x & mask) & 1 over all x, for every mask.
InputParity ==
    NewArray([mask \in Bytes |->
        truthTableOf(NewArray([x \in Bytes |-> ParityTable[BAnd(x, mask)]]))])

\* The number of inputs x with (hammingWeight(x & mask) & 1) === truthTable[x].
agreements(truthTable, mask) ==
    Cardinality(InputParity[mask].ones \cap truthTable.ones)
        + Cardinality(InputParity[mask].zeros \cap truthTable.zeros)

\* sum += input === output ? 1 : -1 over the 256 inputs.
walshTransform(truthTable, mask) ==
    agreements(truthTable, mask) - (256 - agreements(truthTable, mask))

\* The loop over mask = 0..255 keeping the largest |coefficient|, from 0.
maxWalsh(truthTable) ==
    Max({0} \cup {Abs(walshTransform(truthTable, mask)) : mask \in Bytes})

\* (sbox[x] >> bit) & 1 for every bit and x.
bitPlanes(table) ==
    NewArray([bit \in 0..7 |-> NewArray([x \in Bytes |-> BitAt(table[x], bit)])])

\* minNL starts at 120; nl = 128 - maxWalsh / 2 for each output bit.
calculateNL(table) ==
    LET planes == bitPlanes(table)
    IN  Min({120} \cup {128 - (maxWalsh(truthTableOf(planes[bit])) \div 2) : bit \in 0..7})

\* flips for one (inputBit, outputBit): outOriginal !== outFlipped.
flips(planes, inputBit, outputBit) ==
    Cardinality({x \in Bytes :
        planes[outputBit][x] # planes[outputBit][BXor(x, 2 ^ inputBit)]})

\* totalFlips / totalTests, totalTests = 64 * 256.
calculateSAC(table) ==
    LET planes == bitPlanes(table)
        perPair == NewArray([p \in 0..63 |-> flips(planes, p \div 8, p % 8)])
    IN  Ratio(SumOver(perPair, 0, 64), 64 * 256)

\* The pairs bit1 < bit2 in loop order.
BitPairs ==
    Arr(<< <<0, 1>>, <<0, 2>>, <<0, 3>>, <<0, 4>>, <<0, 5>>, <<0, 6>>, <<0, 7>>,
           <<1, 2>>, <<1, 3>>, <<1, 4>>, <<1, 5>>, <<1, 6>>, <<1, 7>>,
           <<2, 3>>, <<2, 4>>, <<2, 5>>, <<2, 6>>, <<2, 7>>,
           <<3, 4>>, <<3, 5>>, <<3, 6>>, <<3, 7>>,
           <<4, 5>>, <<4, 6>>, <<4, 7>>,
           <<5, 6>>, <<5, 7>>,
           <<6, 7>> >>)

\* As calculateNL, over b1 ^ b2 for each pair of output bits.
calculateBICNL(table) ==
    LET planes == bitPlanes(table)
        xored(pair) == NewArray([x \in Bytes |->
                           (planes[pair[1]][x] + planes[pair[2]][x]) % 2])
    IN  Min({120} \cup {128 - (maxWalsh(truthTableOf(xored(BitPairs[p]))) \div 2) :
                           p \in 0..27})

\* agreements for one (bit1, bit2, inputBit): change1 === change2.
changeAgreements(planes, bit1, bit2, inputBit) ==
    Cardinality({x \in Bytes :
        (planes[bit1][x] # planes[bit1][BXor(x, 2 ^ inputBit)])
            = (planes[bit2][x] # planes[bit2][BXor(x, 2 ^ inputBit)])})

\* totalCorrelation / pairCount, each term agreements / 256, pairCount = 224.
calculateBICSAC(table) ==
    LET planes == bitPlanes(table)
        perTest == NewArray([t \in 0..223 |->
                       changeAgreements(planes, BitPairs[t \div 8][1],
                                        BitPairs[t \div 8][2], t % 8)])
    IN  Ratio(SumOver(perTest, 0, 224), 256 * 224)

\* hammingWeight(sbox[x] & outputMask) & 1 over all x, for every outputMask.
outputParities(table) ==
    NewArray([outputMask \in Bytes |->
        truthTableOf(NewArray([x \in Bytes |->
            ParityTable[BAnd(table[x], outputMask)]]))])

\* One iteration of calculateLAP's outer loop, for input mask `mask` with
\* the running maximum `bias`: the inner loop over outputMask = 1..255 with
\* count the agreements of the two parities and bias = |count / 256 - 0.5|,
\* here in 256ths.
lapInputMask(outputs, mask, bias) ==
    Max({bias} \cup {Abs(agreements(outputs[outputMask], mask) - 128) :
                        outputMask \in 1..255})

\* The outer loop over the input masks mask..to-1.
RECURSIVE lapLoop(_, _, _, _)
lapLoop(outputs, mask, to, bias) ==
    IF mask = to THEN bias
    ELSE lapLoop(outputs, mask + 1, to, lapInputMask(outputs, mask, bias))

\* The outer loop from `mask` to 255, run as stretches of at most 16 input
\* masks to bound the nesting depth.
RECURSIVE lapStretches(_, _, _)
lapStretches(outputs, mask, bias) ==
    IF mask = 256 THEN bias
    ELSE Then(lapLoop(outputs, mask, Min({256, mask + 16}), bias),
              LAMBDA next : lapStretches(outputs, Min({256, mask + 16}), next))

\* for (let inputMask = 0; inputMask < 256; inputMask++) ..., maxBias from 0.
calculateLAP(table) ==
    Ratio(lapStretches(outputParities(table), 0, 0), 256)

\* diffCounts[sbox[x] ^ sbox[x ^ inputDiff]]++ for x in from..to-1.
RECURSIVE diffCountLoop(_, _, _, _, _)
diffCountLoop(table, inputDiff, x, to, diffCounts) ==
    IF x = to THEN diffCounts
    ELSE diffCountLoop(table, inputDiff, x + 1, to,
             [diffCounts EXCEPT ![BXor(table[x], table[BXor(x, inputDiff)])] = @ + 1])

\* The 256 iterations, run as 16 stretches of 16 to bound the nesting depth.
RECURSIVE diffCountStretches(_, _, _, _)
diffCountStretches(table, inputDiff, x, diffCounts) ==
    IF x = 256 THEN diffCounts
    ELSE Then(diffCountLoop(table, inputDiff, x, x + 16, diffCounts),
              LAMBDA next : diffCountStretches(table, inputDiff, x + 16, next))

\* The largest diffCounts entry over outputDiff = 0..255 for one inputDiff.
maxDiffCount(table, inputDiff) ==
    LET diffCounts == diffCountStretches(table, inputDiff, 0,
                                         NewArray([outputDiff \in Bytes |-> 0]))
    IN  Max({diffCounts[outputDiff] : outputDiff \in Bytes})

\* Variant of calculateDAP: the input difference starts at 0.
calculateDAPFromZero(table) ==
    Ratio(Max({0} \cup {maxDiffCount(table, inputDiff) : inputDiff \in 0..255}), 256)

\* maxProb from 0 over inputDiff = 1..255; prob = diffCounts[outputDiff] / 256.
calculateDAP(table) ==
    Ratio(Max({0} \cup {maxDiffCount(table, inputDiff) : inputDiff \in 1..255}), 256)

calculateAllMetrics(table) ==
    [NL |-> calculateNL(table),
     SAC |-> calculateSAC(table),
     BICNL |-> calculateBICNL(table),
     BICSAC |-> calculateBICSAC(table),
     LAP |-> calculateLAP(table),
     DAP |-> calculateDAP(table)]

\* AES_METRICS, each quotient as a decimal fraction.
AES_METRICS ==
    [NL |-> 112,
     SAC |-> Ratio(50488, 100000),
     BICNL |-> 112,
     BICSAC |-> Ratio(50460, 100000),
     LAP |-> Ratio(625, 10000),
     DAP |-> Ratio(15625, 1000000)]

(***************************************************************************)
(* Idle values: a specification leaves the variables of the other          *)
(* operations untouched.                                                   *)
(***************************************************************************)

blockIdle ==
    block = None /\ key = None /\ encrypted = None /\ decrypted = None /\ steps = None

msgIdle ==
    plaintext = None /\ keyStr = None /\ ciphertext = None /\ result = None

padIdle ==
    data = None /\ padded = None /\ unpadded = None

matIdle ==
    inverse = None /\ inverseAgain = None

metIdle ==
    metrics = None /\ inputMask = None /\ maxBias = None

gfIdle ==
    operand = None /\ tableInverse = None /\ computedInverse = None

schedIdle ==
    otherSbox = None /\ schedule = None /\ otherSchedule = None

storeIdle ==
    /\ matrixValid = None /\ isCalculatingMetrics = None
    /\ ciphertextInput = None /\ decryptedText = None /\ encryptionSbox = None
    /\ timers = None /\ edits = None

visIdle ==
    encryptionSteps = None /\ stepRoundKeys = None /\ currentStepIndex = None

randIdle ==
    attempts = None /\ drawn = None

imageIdle ==
    /\ originalImage = None /\ encryptedImage = None /\ decryptedImage = None
    /\ imageKey = None /\ isProcessing = None

crossIdle ==
    otherKeyStr = None /\ otherCiphertext = None /\ otherResult = None

moreIdle ==
    visIdle /\ randIdle /\ imageIdle /\ crossIdle

\* The variables of the operations added after the four above.
extIdle ==
    matIdle /\ metIdle /\ gfIdle /\ schedIdle /\ storeIdle /\ moreIdle

(***************************************************************************)
(* SpecSBox: S-box generation from a matrix and a constant                 *)
(***************************************************************************)

\* Rows 0..MaxToggleRow of a preset are the ones edited bit by bit.
MaxToggleRow ==
    3

\* clearMatrix's matrix.
ZERO_MATRIX ==
    NewArray([i \in 0..7 |-> 0])

\* The presets, the cleared matrix, and every preset with one bit toggled.
MatrixChoices ==
    {K44_MATRIX, KAES_MATRIX, ZERO_MATRIX}
    \cup {toggleMatrixBit(m, row, col) :
             m \in {K44_MATRIX, KAES_MATRIX}, row \in 0..MaxToggleRow, col \in 0..7}

ConstantChoices ==
    {AES_CONSTANT, 0}

InitSBox ==
    /\ matrix \in MatrixChoices
    /\ constant \in ConstantChoices
    /\ sbox = None
    /\ invSbox = None
    /\ pc = "start"
    /\ blockIdle /\ msgIdle /\ padIdle /\ extIdle

GenerateSBox ==
    /\ pc = "start"
    /\ sbox' = generateSBox(matrix, constant)
    /\ pc' = "generated"
    /\ UNCHANGED << matrix, constant, invSbox, blockVars, msgVars, padVars, extVars >>

GenerateInverseSBox ==
    /\ pc = "generated"
    /\ invSbox' = generateInverseSBox(sbox)
    /\ pc' = "inverted"
    /\ UNCHANGED << matrix, constant, sbox, blockVars, msgVars, padVars, extVars >>

NextSBox ==
    \/ GenerateSBox
    \/ GenerateInverseSBox

SpecSBox ==
    InitSBox /\ [][NextSBox]_vars

\* C7: generateSBox with the K44 matrix and constant 0x63 yields entry 0 =
\* 0x63, entry 1 = 0x34, entry 2 = 0xA5 and equals EXPECTED_SBOX44 at every
\* index.
C7_K44ReferenceTable ==
    (pc # "start" /\ matrix = K44_MATRIX /\ constant = 99)
        => /\ sbox[0] = 99
           /\ sbox[1] = 52
           /\ sbox[2] = 165
           /\ \A x \in 0..255 : sbox[x] = EXPECTED_SBOX44[x]

C7_Witness ==
    pc = "generated" /\ matrix = K44_MATRIX /\ constant = 99 /\ sbox[255] = 41

\* C8: generateSBox with KAES_MATRIX and constant 0x63 reproduces the
\* standard AES S-box AES_SBOX at all 256 entries (99, 124, 119, ...).
C8_StandardAesSBox ==
    (pc # "start" /\ matrix = KAES_MATRIX /\ constant = 99)
        => /\ sbox[0] = 99
           /\ sbox[1] = 124
           /\ sbox[2] = 119
           /\ \A x \in 0..255 : sbox[x] = AES_SBOX[x]

\* C9: for an invertible matrix M, any constant C and every x in 0..255,
\* generateInverseSBox(generateSBox(M,C))[generateSBox(M,C)[x]] = x.
C9_InverseSBoxInverts ==
    (pc = "inverted" /\ isMatrixValid(matrix))
        => \A x \in 0..255 : invSbox[sbox[x]] = x

C9_Witness ==
    /\ pc = "inverted"
    /\ isMatrixValid(matrix)
    /\ matrix \notin {K44_MATRIX, KAES_MATRIX}
    /\ constant = 0
    /\ invSbox[sbox[7]] = 7

\* C10: generateSBox(M, C) is a permutation of 0..255 (isSBoxBijective) if
\* and only if isMatrixValid(M): a rank-deficient matrix never yields a
\* bijective S-box and an invertible one always does.
C10_BijectiveIffMatrixValid ==
    pc # "start" => (isSBoxBijective(sbox) <=> isMatrixValid(matrix))

C10_Witness ==
    /\ pc = "generated"
    /\ ~isMatrixValid(matrix)
    /\ matrix # ZERO_MATRIX
    /\ ~isSBoxBijective(sbox)

(***************************************************************************)
(* SpecBlock: one 16-byte block through encryptBlock, decryptBlock and     *)
(* encryptBlockWithSteps                                                   *)
(***************************************************************************)

MaxBlockSeed ==
    3

MaxKeySeed ==
    2

\* Sample blocks; seed 0 is the all-zero block.
BlockOf(seed) ==
    NewArray([i \in 0..15 |-> (seed * (29 * i + 7) + seed * seed * 101) % 256])

\* Sample keys; seed 0 is the all-zero key.
KeyOf(seed) ==
    NewArray([i \in 0..15 |-> (seed * (53 * i + 11) + seed * seed * 89) % 256])

BlockChoices ==
    {BlockOf(seed) : seed \in 0..MaxBlockSeed}

KeyChoices ==
    {KeyOf(seed) : seed \in 0..MaxKeySeed}

\* Bijective S-boxes: two generated from the presets and the published one.
SBoxChoices ==
    {generateSBox(K44_MATRIX, AES_CONSTANT), generateSBox(KAES_MATRIX, 0), AES_SBOX}

InitBlock ==
    /\ block \in BlockChoices
    /\ key \in KeyChoices
    /\ sbox \in SBoxChoices
    /\ encrypted = None
    /\ decrypted = None
    /\ steps = None
    /\ matrix = None /\ constant = None /\ invSbox = None
    /\ pc = "start"
    /\ msgIdle /\ padIdle /\ extIdle

EncryptBlock ==
    /\ pc = "start"
    /\ encrypted' = encryptBlock(block, key, sbox)
    /\ pc' = "encrypted"
    /\ UNCHANGED << block, key, decrypted, steps, sboxVars, msgVars, padVars, extVars >>

DecryptBlock ==
    /\ pc = "encrypted"
    /\ decrypted' = decryptBlock(encrypted, key, sbox)
    /\ pc' = "decrypted"
    /\ UNCHANGED << block, key, encrypted, steps, sboxVars, msgVars, padVars, extVars >>

EncryptBlockWithSteps ==
    /\ pc = "decrypted"
    /\ steps' = encryptBlockWithSteps(block, key, sbox).steps
    /\ pc' = "traced"
    /\ UNCHANGED << block, key, encrypted, decrypted, sboxVars, msgVars, padVars, extVars >>

NextBlock ==
    \/ EncryptBlock
    \/ DecryptBlock
    \/ EncryptBlockWithSteps

SpecBlock ==
    InitBlock /\ [][NextBlock]_vars

\* C2: for every 16-byte block, 16-byte key and bijective S-box,
\* decryptBlock(encryptBlock(block, key, sbox), key, sbox) = block.
C2_BlockRoundTrip ==
    pc \in {"decrypted", "traced"} => decrypted = block

C2_Witness ==
    /\ pc = "decrypted"
    /\ block = BlockOf(1)
    /\ key = KeyOf(1)
    /\ sbox # AES_SBOX
    /\ encrypted # block
    /\ decrypted = block

\* The (round, operation) pair the trace must show at position i of 1..41.
ExpectedOrder(i) ==
    IF i = 1 THEN << 0, "initial" >>
    ELSE IF i = 2 THEN << 0, "addRoundKey" >>
    ELSE IF i <= 38
         THEN << ((i - 3) \div 4) + 1,
                 << "subBytes", "shiftRows", "mixColumns", "addRoundKey" >>[((i - 3) % 4) + 1] >>
         ELSE << 10, << "subBytes", "shiftRows", "addRoundKey" >>[i - 38] >>

\* C3: encryptBlockWithSteps emits exactly 41 steps in the fixed order
\* (0, initial), (0, addRoundKey), then subBytes, shiftRows, mixColumns,
\* addRoundKey for each round 1..9, then subBytes, shiftRows, addRoundKey for
\* round 10, whatever the block, key and S-box.
C3_FixedStepOrder ==
    pc = "traced"
        => /\ Len(steps) = 41
           /\ \A i \in 1..41 : << steps[i].round, steps[i].operation >> = ExpectedOrder(i)

C3_Witness ==
    /\ pc = "traced"
    /\ block = BlockOf(2)
    /\ key = KeyOf(0)
    /\ steps[38].operation = "addRoundKey"
    /\ steps[41].round = 10

\* The recorded operation of a step applied to the state of the step before.
Replay(entry, previous, roundKeys, table) ==
    CASE entry.operation = "subBytes" -> subBytes(previous, table)
      [] entry.operation = "shiftRows" -> shiftRows(previous)
      [] entry.operation = "mixColumns" -> mixColumns(previous)
      [] entry.operation = "addRoundKey" -> addRoundKey(previous, roundKeys[entry.round])

\* C4: in the trace of encryptBlockWithSteps, every step after the first
\* records the state obtained by applying its operation (subBytes with the
\* S-box, shiftRows, mixColumns, or addRoundKey with the round key of its
\* round) to the state recorded by the step before it.
C4_StepsReplay ==
    pc = "traced"
        => LET roundKeys == keyExpansion(key, sbox)
           IN  \A i \in 2..Len(steps) :
                   steps[i].state = Replay(steps[i], steps[i - 1].state, roundKeys, sbox)

C4_Witness ==
    /\ pc = "traced"
    /\ block = BlockOf(3)
    /\ key = KeyOf(2)
    /\ sbox = generateSBox(K44_MATRIX, AES_CONSTANT)
    /\ steps[1].state = bytesToState(block)
    /\ steps[41].state = bytesToState(encrypted)

(***************************************************************************)
(* SpecPad: pkcs7Pad and pkcs7Unpad on byte arrays, and decrypt on the     *)
(* ciphertext of the same bytes                                            *)
(***************************************************************************)

MaxTailLen ==
    3

\* Every sequence over S of length 0..n.
SeqsUpTo(S, n) ==
    UNION {[1..k -> S] : k \in 0..n}

\* Pad markers 0, 1, 2, 16, 17 and an ordinary byte.
TailBytes ==
    {0, 1, 2, 16, 17, 65}

\* Lengths of the run of bytes 16 in front of the tail: with a tail of 2 or
\* 3 bytes the data fills one or two blocks exactly.
FillLengths ==
    {0, 13, 14, 29}

DataChoices ==
    {Arr([i \in 1..n |-> 16] \o tail) :
        n \in FillLengths, tail \in SeqsUpTo(TailBytes, MaxTailLen)}

\* The key string "k".
PadKeyStr ==
    << 107 >>

PadSBox ==
    generateSBox(K44_MATRIX, AES_CONSTANT)

InitPad ==
    /\ data \in DataChoices
    /\ padded = None
    /\ unpadded = None
    /\ keyStr = PadKeyStr
    /\ sbox = PadSBox
    /\ ciphertext = None
    /\ result = None
    /\ plaintext = None
    /\ matrix = None /\ constant = None /\ invSbox = None
    /\ pc = "start"
    /\ blockIdle /\ extIdle

Pkcs7Pad ==
    /\ pc = "start"
    /\ padded' = pkcs7Pad(data)
    /\ pc' = "padded"
    /\ UNCHANGED << data, unpadded, sboxVars, blockVars, msgVars, extVars >>

Pkcs7Unpad ==
    /\ pc = "padded"
    /\ unpadded' = pkcs7Unpad(data)
    /\ pc' = "unpadded"
    /\ UNCHANGED << data, padded, sboxVars, blockVars, msgVars, extVars >>

\* decrypt on the ciphertext whose blocks decrypt to `data`.
DecryptData ==
    /\ pc = "unpadded"
    /\ Length(data) % 16 = 0
    /\ \E c \in {encryptBlocks(data, encode(padEndSlice(keyStr)), sbox)} :
          /\ ciphertext' = c
          /\ result' = decrypt(c, keyStr, sbox)
    /\ pc' = "decrypted"
    /\ UNCHANGED << plaintext, keyStr, padVars, sboxVars, blockVars, extVars >>

NextPad ==
    \/ Pkcs7Pad
    \/ Pkcs7Unpad
    \/ DecryptData

SpecPad ==
    InitPad /\ [][NextPad]_vars

\* The data ends with a well-formed PKCS7 padding.
ValidPadding(d) ==
    /\ Length(d) > 0
    /\ d[Length(d) - 1] \in 1..16
    /\ d[Length(d) - 1] <= Length(d)
    /\ \A i \in (Length(d) - d[Length(d) - 1])..(Length(d) - 1) : d[i] = d[Length(d) - 1]

\* The data without its last p bytes, p being its last byte.
WithoutPadding(d) ==
    [i \in 0..(Length(d) - d[Length(d) - 1] - 1) |-> d[i]]

PaddingFailures ==
    {"Invalid padding: empty data", "Invalid padding length",
     "Padding length exceeds data length", "Invalid padding byte"}

\* C5: pkcs7Unpad, and decrypt through it, return a result only if the data
\* is non-empty, its last byte p is in 1..16 and at most the length, and the
\* last p bytes all equal p; the result is then the first length-p bytes.
\* In every other case they raise a padding failure.
C5_UnpadVerifiesPadding ==
    /\ pc \in {"unpadded", "decrypted"}
          => /\ unpadded.ok <=> ValidPadding(data)
             /\ unpadded.ok => unpadded.value = WithoutPadding(data)
             /\ ~unpadded.ok => unpadded.error \in PaddingFailures
    /\ pc = "decrypted"
          => /\ result.ok <=> ValidPadding(data)
             /\ result.ok => result.value = decode(WithoutPadding(data))
             /\ ~result.ok => result.error \in PaddingFailures

C5_Witness ==
    /\ pc = "decrypted"
    /\ Length(data) = 32
    /\ data[31] = 2
    /\ data[30] = 17
    /\ ~unpadded.ok
    /\ ~result.ok

\* C6: pkcs7Pad appends exactly 16 - (len % 16) bytes, between 1 and 16 of
\* them, each equal to that count, keeps the input as a prefix, and returns
\* a positive multiple of 16 bytes.
C6_PadAppendsPadLength ==
    pc # "start"
        => LET len == Length(data)
               padLen == Length(padded) - len
           IN  /\ padLen = 16 - (len % 16)
               /\ padLen \in 1..16
               /\ \A i \in 0..(len - 1) : padded[i] = data[i]
               /\ \A i \in len..(Length(padded) - 1) : padded[i] = padLen
               /\ Length(padded) > 0
               /\ Length(padded) % 16 = 0

C6_Witness ==
    /\ pc = "padded"
    /\ Length(data) = 16
    /\ Length(padded) = 32
    /\ padded[31] = 16

(***************************************************************************)
(* SpecMsg: encrypt and decrypt on whole messages                          *)
(***************************************************************************)

MaxTextChars ==
    2

\* "A", e with acute accent, U+FEFF and U+1F600 as UTF-16 code units.
CharChoices ==
    {<< 65 >>, << 233 >>, << 65279 >>, << 55357, 56832 >>}

RECURSIVE Concat(_)
Concat(parts) ==
    IF parts = << >> THEN << >> ELSE Head(parts) \o Concat(Tail(parts))

\* Numbers of "A" after the first characters: the UTF-8 bytes end before,
\* at and after a block boundary.
TextFillLengths ==
    {0, 13, 16}

TextChoices ==
    {Concat(chars) \o [i \in 1..n |-> 65] :
        chars \in SeqsUpTo(CharChoices, MaxTextChars), n \in TextFillLengths}

\* "k" and a key of 16 characters.
KeyStrChoices ==
    {<< 107 >>, [i \in 1..16 |-> 96 + i]}

\* S-boxes of invertible matrices.
MsgSBoxChoices ==
    {generateSBox(K44_MATRIX, AES_CONSTANT), generateSBox(KAES_MATRIX, 0)}

InitMsg ==
    /\ plaintext \in TextChoices
    /\ keyStr \in KeyStrChoices
    /\ sbox \in MsgSBoxChoices
    /\ ciphertext = None
    /\ result = None
    /\ matrix = None /\ constant = None /\ invSbox = None
    /\ pc = "start"
    /\ blockIdle /\ padIdle /\ extIdle

Encrypt ==
    /\ pc = "start"
    /\ ciphertext' = encrypt(plaintext, keyStr, sbox)
    /\ pc' = "encrypted"
    /\ UNCHANGED << plaintext, keyStr, result, sboxVars, blockVars, padVars, extVars >>

Decrypt ==
    /\ pc = "encrypted"
    /\ result' = decrypt(ciphertext, keyStr, sbox)
    /\ pc' = "decrypted"
    /\ UNCHANGED << plaintext, keyStr, ciphertext, sboxVars, blockVars, padVars, extVars >>

NextMsg ==
    \/ Encrypt
    \/ Decrypt

SpecMsg ==
    InitMsg /\ [][NextMsg]_vars

\* C1: for every plaintext (the empty string included), every key string of
\* length 1..16 and every S-box of an invertible matrix,
\* decrypt(encrypt(plaintext, key, sbox), key, sbox) returns the plaintext.
C1_MessageRoundTrip ==
    pc = "decrypted" => (result.ok /\ result.value = plaintext)

(***************************************************************************)
(* SpecMatrix: invertMatrix, once and twice                                *)
(***************************************************************************)

InitMatrix ==
    /\ matrix \in MatrixChoices
    /\ inverse = None
    /\ inverseAgain = None
    /\ constant = None /\ sbox = None /\ invSbox = None
    /\ pc = "start"
    /\ blockIdle /\ msgIdle /\ padIdle /\ metIdle /\ gfIdle /\ schedIdle /\ storeIdle /\ moreIdle

InvertMatrix ==
    /\ pc = "start"
    /\ inverse' = invertMatrix(matrix)
    /\ pc' = "inverted"
    /\ UNCHANGED << inverseAgain, sboxVars, blockVars, msgVars, padVars, metVars, gfVars, schedVars, storeVars, moreVars >>

\* invertMatrix on the matrix the first call returned.
InvertAgain ==
    /\ pc = "inverted"
    /\ ~inverse.null
    /\ inverseAgain' = invertMatrix(inverse.rows)
    /\ pc' = "invertedAgain"
    /\ UNCHANGED << inverse, sboxVars, blockVars, msgVars, padVars, metVars, gfVars, schedVars, storeVars, moreVars >>

NextMatrix ==
    \/ InvertMatrix
    \/ InvertAgain

SpecMatrix ==
    InitMatrix /\ [][NextMatrix]_vars

\* C11: isMatrixValid(M) is true if and only if invertMatrix(M) returns a
\* matrix and not null.
C11_ValidIffInvertible ==
    pc # "start" => (isMatrixValid(matrix) <=> ~inverse.null)

C11_Witness ==
    /\ pc = "inverted"
    /\ matrix \notin {K44_MATRIX, KAES_MATRIX, ZERO_MATRIX}
    /\ ~isMatrixValid(matrix)
    /\ inverse.null

\* C12: whenever invertMatrix(M) succeeds, invertMatrix(invertMatrix(M))
\* succeeds as well and equals M byte for byte.
C12_InverseOfInverse ==
    pc = "invertedAgain"
        => /\ ~inverseAgain.null
           /\ \A i \in 0..7 : inverseAgain.rows[i] = matrix[i]

C12_Witness ==
    /\ pc = "invertedAgain"
    /\ matrix # K44_MATRIX
    /\ \E i \in 0..7 : inverse.rows[i] # matrix[i]
    /\ inverseAgain.rows = matrix
(***************************************************************************)
(* SpecMetrics: calculateAllMetrics on a 256-entry table, one metric after *)
(* the other in the order of its object literal; calculateLAP's outer loop *)
(* runs one input mask per step.                                           *)
(***************************************************************************)

\* The tables analysed: the standard AES S-box, the S-box of the K44 preset,
\* and the table of the cleared matrix, which is constant (not bijective).
MetricTables ==
    {AES_SBOX,
     generateSBox(K44_MATRIX, AES_CONSTANT),
     generateSBox(ZERO_MATRIX, AES_CONSTANT)}

\* outputParities of each analysed table; calculateLAP's inner loops read
\* the same parities at every input mask.
OutputParities ==
    [table \in MetricTables |-> outputParities(table)]

InitMetrics ==
    /\ sbox \in MetricTables
    /\ metrics = << >>
    /\ inputMask = 0
    /\ maxBias = 0
    /\ pc = "start"
    /\ matrix = None /\ constant = None /\ invSbox = None
    /\ blockIdle /\ msgIdle /\ padIdle /\ matIdle /\ gfIdle /\ schedIdle /\ storeIdle /\ moreIdle

CalculateNL ==
    /\ pc = "start"
    /\ metrics' = [NL |-> calculateNL(sbox)]
    /\ pc' = "NL"
    /\ UNCHANGED << inputMask, maxBias, sboxVars, blockVars, msgVars, padVars, matVars, gfVars, schedVars, storeVars, moreVars >>

CalculateSAC ==
    /\ pc = "NL"
    /\ metrics' = [NL |-> metrics.NL, SAC |-> calculateSAC(sbox)]
    /\ pc' = "SAC"
    /\ UNCHANGED << inputMask, maxBias, sboxVars, blockVars, msgVars, padVars, matVars, gfVars, schedVars, storeVars, moreVars >>

CalculateBICNL ==
    /\ pc = "SAC"
    /\ metrics' = [NL |-> metrics.NL, SAC |-> metrics.SAC,
                   BICNL |-> calculateBICNL(sbox)]
    /\ pc' = "BICNL"
    /\ UNCHANGED << inputMask, maxBias, sboxVars, blockVars, msgVars, padVars, matVars, gfVars, schedVars, storeVars, moreVars >>

CalculateBICSAC ==
    /\ pc = "BICNL"
    /\ metrics' = [NL |-> metrics.NL, SAC |-> metrics.SAC, BICNL |-> metrics.BICNL,
                   BICSAC |-> calculateBICSAC(sbox)]
    /\ pc' = "BICSAC"
    /\ UNCHANGED << inputMask, maxBias, sboxVars, blockVars, msgVars, padVars, matVars, gfVars, schedVars, storeVars, moreVars >>

\* One iteration of calculateLAP's loop over inputMask.
CalculateLAPMask ==
    /\ pc = "BICSAC"
    /\ inputMask < 256
    /\ maxBias' = lapInputMask(OutputParities[sbox], inputMask, maxBias)
    /\ inputMask' = inputMask + 1
    /\ UNCHANGED << metrics, pc, sboxVars, blockVars, msgVars, padVars, matVars, gfVars, schedVars, storeVars, moreVars >>

\* calculateLAP returns maxBias once the loop has ended.
CalculateLAP ==
    /\ pc = "BICSAC"
    /\ inputMask = 256
    /\ metrics' = [NL |-> metrics.NL, SAC |-> metrics.SAC, BICNL |-> metrics.BICNL,
                   BICSAC |-> metrics.BICSAC, LAP |-> Ratio(maxBias, 256)]
    /\ pc' = "LAP"
    /\ UNCHANGED << inputMask, maxBias, sboxVars, blockVars, msgVars, padVars, matVars, gfVars, schedVars, storeVars, moreVars >>

CalculateDAP ==
    /\ pc = "LAP"
    /\ metrics' = [NL |-> metrics.NL, SAC |-> metrics.SAC, BICNL |-> metrics.BICNL,
                   BICSAC |-> metrics.BICSAC, LAP |-> metrics.LAP,
                   DAP |-> calculateDAP(sbox)]
    /\ pc' = "done"
    /\ UNCHANGED << inputMask, maxBias, sboxVars, blockVars, msgVars, padVars, matVars, gfVars, schedVars, storeVars, moreVars >>

NextMetrics ==
    \/ CalculateNL
    \/ CalculateSAC
    \/ CalculateBICNL
    \/ CalculateBICSAC
    \/ CalculateLAPMask
    \/ CalculateLAP
    \/ CalculateDAP

SpecMetrics ==
    InitMetrics /\ [][NextMetrics]_vars

\* a = b as quotients.
SameQuotient(a, b) ==
    a.num * b.den = b.num * a.den

\* |a - b| <= 1 / parts, as quotients.
WithinOneIn(a, b, parts) ==
    Abs(a.num * b.den - b.num * a.den) * parts <= a.den * b.den

\* C13: calculateAllMetrics on the standard AES S-box yields NL = 112, SAC
\* within 0.0001 of 0.50488, BIC-NL = 112, LAP = 0.0625 and DAP = 0.015625.
C13_AesSBoxMetrics ==
    (pc = "done" /\ sbox = AES_SBOX)
        => /\ metrics.NL = 112
           /\ WithinOneIn(metrics.SAC, Ratio(50488, 100000), 10000)
           /\ metrics.BICNL = 112
           /\ SameQuotient(metrics.LAP, Ratio(625, 10000))
           /\ SameQuotient(metrics.DAP, Ratio(15625, 1000000))

C13_Witness ==
    /\ pc = "done"
    /\ sbox = AES_SBOX
    /\ metrics.NL = AES_METRICS.NL
    /\ metrics.SAC = Ratio(8272, 16384)

\* C17: calculateLAP's result is the maximum bias over the nonzero input
\* masks and the nonzero output masks only, for every 256-entry table,
\* bijective or not: the input mask 0 never contributes.
C17_NonzeroMasksOnly ==
    pc \in {"LAP", "done"}
        => metrics.LAP = Ratio(lapStretches(OutputParities[sbox], 1, 0), 256)

(***************************************************************************)
(* SpecInverse: the multiplicative inverse of a byte by table lookup and   *)
(* by exponentiation                                                       *)
(***************************************************************************)

InitInverse ==
    /\ operand \in Bytes
    /\ tableInverse = None
    /\ computedInverse = None
    /\ pc = "start"
    /\ matrix = None /\ constant = None /\ sbox = None /\ invSbox = None
    /\ blockIdle /\ msgIdle /\ padIdle /\ matIdle /\ metIdle /\ schedIdle /\ storeIdle /\ moreIdle

GfInverse ==
    /\ pc \in {"start", "computed"}
    /\ tableInverse' = gfInverse(operand)
    /\ pc' = IF pc = "start" THEN "table" ELSE "both"
    /\ UNCHANGED << operand, computedInverse, sboxVars, blockVars, msgVars,
                    padVars, matVars, metVars, schedVars, storeVars, moreVars >>

GfInverseComputed ==
    /\ pc \in {"start", "table"}
    /\ computedInverse' = gfInverseComputed(operand)
    /\ pc' = IF pc = "start" THEN "computed" ELSE "both"
    /\ UNCHANGED << operand, tableInverse, sboxVars, blockVars, msgVars,
                    padVars, matVars, metVars, schedVars, storeVars, moreVars >>

NextInverse ==
    \/ GfInverse
    \/ GfInverseComputed

SpecInverse ==
    InitInverse /\ [][NextInverse]_vars

\* C14: for every byte x, gfInverse(x) (the table lookup) equals
\* gfInverseComputed(x) (x^254 by six square-and-multiply iterations and one
\* squaring), and both are 0 for x = 0.
C14_InversePathsAgree ==
    pc = "both"
        => /\ tableInverse = computedInverse
           /\ operand = 0 => (tableInverse = 0 /\ computedInverse = 0)

C14_Witness ==
    /\ pc = "both"
    /\ operand = 83
    /\ tableInverse = 202
    /\ computedInverse = 202

(***************************************************************************)
(* SpecSchedule: keyExpansion of one key under two different S-boxes       *)
(***************************************************************************)

\* S-boxes of invertible matrices and the published one.
ScheduleSBoxes ==
    {generateSBox(K44_MATRIX, AES_CONSTANT), generateSBox(KAES_MATRIX, AES_CONSTANT),
     generateSBox(K44_MATRIX, 0), AES_SBOX}

InitSchedule ==
    /\ key \in KeyChoices
    /\ sbox \in ScheduleSBoxes
    /\ otherSbox \in ScheduleSBoxes
    /\ sbox # otherSbox
    /\ schedule = None
    /\ otherSchedule = None
    /\ pc = "start"
    /\ matrix = None /\ constant = None /\ invSbox = None
    /\ block = None /\ encrypted = None /\ decrypted = None /\ steps = None
    /\ msgIdle /\ padIdle /\ matIdle /\ metIdle /\ gfIdle /\ storeIdle /\ moreIdle

KeyExpansion ==
    /\ pc \in {"start", "other"}
    /\ schedule' = keyExpansion(key, sbox)
    /\ pc' = IF pc = "start" THEN "first" ELSE "both"
    /\ UNCHANGED << otherSbox, otherSchedule, sboxVars, blockVars, msgVars,
                    padVars, matVars, metVars, gfVars, storeVars, moreVars >>

KeyExpansionOther ==
    /\ pc \in {"start", "first"}
    /\ otherSchedule' = keyExpansion(key, otherSbox)
    /\ pc' = IF pc = "start" THEN "other" ELSE "both"
    /\ UNCHANGED << otherSbox, schedule, sboxVars, blockVars, msgVars,
                    padVars, matVars, metVars, gfVars, storeVars, moreVars >>

NextSchedule ==
    \/ KeyExpansion
    \/ KeyExpansionOther

SpecSchedule ==
    InitSchedule /\ [][NextSchedule]_vars

\* C15 as stated: for a fixed 16-byte key, keyExpansion under two different
\* S-boxes yields schedules that differ in each of the 11 round keys K0..K10.
C15_EveryRoundKeyDiffers ==
    pc = "both" => \A round \in 0..10 : schedule[round] # otherSchedule[round]

\* C15, amended: under two different S-boxes the round key K0 is the same
\* (it is the raw key), and K1 differs exactly when the two S-boxes differ
\* on one of the key's last four bytes, the word that is rotated and
\* substituted first.
C15_FirstRoundKeys ==
    pc = "both"
        => /\ schedule[0] = otherSchedule[0]
           /\ \A row \in 0..3 : \A col \in 0..3 : schedule[0][row][col] = key[4 * col + row]
           /\ (schedule[1] # otherSchedule[1])
                  <=> (\E j \in 12..15 : sbox[key[j]] # otherSbox[key[j]])

\* Two schedules of one key that share K0 and differ in every later round key.
C15_Witness ==
    /\ pc = "both"
    /\ sbox = AES_SBOX
    /\ schedule[0] = otherSchedule[0]
    /\ schedule[1] # otherSchedule[1]
    /\ \A round \in 1..10 : schedule[round] # otherSchedule[round]

(***************************************************************************)
(* SpecEcb: encrypt and decrypt on messages of several blocks              *)
(***************************************************************************)

MaxEcbBlocks ==
    2

\* Sixteen characters that fill one block: all "A", and fifteen "A" followed
\* by "B".
EcbBlockTexts ==
    {[i \in 1..16 |-> 65], [i \in 1..16 |-> IF i = 16 THEN 66 ELSE 65]}

\* Up to MaxEcbBlocks full blocks followed by nothing or by "AAAAA".
EcbTexts ==
    {Concat(blocks) \o tail :
        blocks \in SeqsUpTo(EcbBlockTexts, MaxEcbBlocks),
        tail \in {<< >>, [i \in 1..5 |-> 65]}}

InitEcb ==
    /\ plaintext \in EcbTexts
    /\ keyStr \in KeyStrChoices
    /\ sbox \in MsgSBoxChoices
    /\ ciphertext = None
    /\ result = None
    /\ matrix = None /\ constant = None /\ invSbox = None
    /\ pc = "start"
    /\ blockIdle /\ padIdle /\ extIdle

SpecEcb ==
    InitEcb /\ [][NextMsg]_vars

\* The i-th 16-byte block of an array.
blockAt(d, i) ==
    slice(d, 16 * i, 16 * i + 16)

\* The blocks of c, each decrypted on its own, one after the other.
blockwiseDecrypted(c, k, table) ==
    NewArray([i \in 0..(Length(c) - 1) |->
        decryptBlock(blockAt(c, i \div 16), k, table)[i % 16]])

\* C18: the i-th block of encrypt's output is encryptBlock of the i-th block
\* of the PKCS7-padded plaintext under the zero-padded key, so equal
\* plaintext blocks give equal ciphertext blocks and no block depends on
\* another; decrypt's result is, likewise, the unpadded and decoded
\* concatenation of decryptBlock of each ciphertext block.
C18_EcbBlockwise ==
    LET paddedText == pkcs7Pad(encode(plaintext))
        keyBytes == encode(padEndSlice(keyStr))
        unpadResult == pkcs7Unpad(blockwiseDecrypted(ciphertext, keyBytes, sbox))
    IN  /\ pc # "start"
            => /\ Length(ciphertext) = Length(paddedText)
               /\ \A i \in 0..((Length(paddedText) \div 16) - 1) :
                      blockAt(ciphertext, i)
                          = encryptBlock(blockAt(paddedText, i), keyBytes, sbox)
               /\ \A i, j \in 0..((Length(paddedText) \div 16) - 1) :
                      blockAt(paddedText, i) = blockAt(paddedText, j)
                          => blockAt(ciphertext, i) = blockAt(ciphertext, j)
        /\ pc = "decrypted"
            => result = IF unpadResult.ok THEN Return(decode(unpadResult.value))
                        ELSE unpadResult

\* A message of three blocks, the first two equal and the last different,
\* encrypted and decrypted.
C18_Witness ==
    /\ pc = "decrypted"
    /\ Length(ciphertext) = 48
    /\ blockAt(ciphertext, 0) = blockAt(ciphertext, 1)
    /\ blockAt(ciphertext, 1) # blockAt(ciphertext, 2)
    /\ result.ok
    /\ result.value = plaintext

(***************************************************************************)
(* useCryptoStore.ts: the store, its subscription and its timers           *)
(***************************************************************************)

\* setMatrixBit of affine.ts: matrix[row] |= (1 << col) when value is true,
\* matrix[row] &= ~(1 << col) otherwise.
setMatrixBit(m, row, col, value) ==
    [m EXCEPT ![row] = IF value THEN (IF BitAt(m[row], col) = 1 THEN m[row] ELSE m[row] + 2 ^ col)
                       ELSE (IF BitAt(m[row], col) = 1 THEN m[row] - 2 ^ col ELSE m[row])]

\* []
EmptyArray ==
    Arr(<< >>)

\* Variant of regenerateSBox: the S-box is generated without the validity
\* test.
regenerateSBoxUnchecked(m, c) ==
    Then(generateSBox(m, c), LAMBDA table :
        [sbox |-> table, inverseSbox |-> generateInverseSBox(table),
         isMatrixValid |-> TRUE])

\* const regenerateSBox = (matrix, constant) => ...
regenerateSBox(m, c) ==
    IF ~isMatrixValid(m)
    THEN [sbox |-> EmptyArray, inverseSbox |-> EmptyArray, isMatrixValid |-> FALSE]
    ELSE Then(generateSBox(m, c), LAMBDA table :
             [sbox |-> table, inverseSbox |-> generateInverseSBox(table),
              isMatrixValid |-> TRUE])

\* metrics: null, or the SBoxMetrics of one S-box.  The six numbers are a
\* function of that S-box alone, so the store keeps the S-box they were
\* computed from and metricsValue gives the numbers.
NoMetrics ==
    [null |-> TRUE, of |-> EmptyArray]

MetricsOf(table) ==
    [null |-> FALSE, of |-> table]

metricsValue(m) ==
    calculateAllMetrics(m.of)

\* ciphertext and encryptionSbox: null, or an array.
NoArray ==
    [null |-> TRUE, array |-> EmptyArray]

ArrayOf(array) ==
    [null |-> FALSE, array |-> array]

\* A pending setTimeout callback.  The callback of the subscription
\* (delay 100) calls recalculateMetrics; the callback recalculateMetrics
\* sets up (delay 10) holds the sbox it read from the store.
subscriptionTimer ==
    [delay |-> 100, sbox |-> EmptyArray]

\* Variant of computationTimer: the callback computes from the S-box the
\* store started with.
computationTimerInitial(table) ==
    [delay |-> 10, sbox |-> generateSBox(K44_MATRIX, AES_CONSTANT)]

computationTimer(table) ==
    [delay |-> 10, sbox |-> table]

\* `timers` is kept in firing order (by deadline, ties in creation order).
\* The places in `queue` a computation timer set up now may take: after
\* every computation timer already pending (set up earlier with the same
\* delay), and before or after each subscription timer that follows, whose
\* deadline is up to 100 ms after its own creation.
laterPositions(queue) ==
    LET pending == {i \in 1..Len(queue) : queue[i].delay = 10}
    IN  (IF pending = {} THEN 0 ELSE Max(pending))..Len(queue)

\* The queue with `timer` placed after its first `position` entries.
insertAt(queue, position, timer) ==
    SubSeq(queue, 1, position) \o << timer >> \o SubSeq(queue, position + 1, Len(queue))

\* The initial state's S-box and inverse S-box.
initialSBox ==
    generateSBox(K44_MATRIX, AES_CONSTANT)

initialInvSBox ==
    generateInverseSBox(initialSBox)

\* The number of S-box changes followed.
MaxEdits ==
    2

\* The cell the user clicks in the matrix grid.
StoreCells ==
    {<< 0, 0 >>}

\* new Array(8).fill(1 << i): the identity.
IDENTITY_MATRIX ==
    NewArray([i \in 0..7 |-> 2 ^ i])

\* Arguments of setMatrix, setConstant; outcomes of generateRandomValidMatrix.
StoreMatrices ==
    {IDENTITY_MATRIX}

StoreConstants ==
    {0}

RandomMatrices ==
    {KAES_MATRIX}

textVars ==
    << plaintext, keyStr, ciphertext, ciphertextInput, decryptedText, encryptionSbox >>

idleOutsideStore ==
    /\ result = None
    /\ blockIdle /\ padIdle /\ matIdle /\ gfIdle /\ schedIdle
    /\ inputMask = None /\ maxBias = None
    /\ randIdle /\ imageIdle /\ crossIdle

outsideStore ==
    << result, blockVars, padVars, matVars, gfVars, schedVars, inputMask, maxBias,
       randVars, imageVars, crossVars >>

\* encryptionSteps: [], roundKeys: [], currentStepIndex: 0
visInitial ==
    /\ encryptionSteps = EmptyArray
    /\ stepRoundKeys = EmptyArray
    /\ currentStepIndex = 0

\* The fields of the state the store is created with.
initialState ==
    /\ matrix = K44_MATRIX
    /\ constant = AES_CONSTANT
    /\ matrixValid = TRUE
    /\ sbox = initialSBox
    /\ invSbox = initialInvSBox
    /\ metrics = NoMetrics
    /\ isCalculatingMetrics = FALSE
    /\ plaintext = << >>
    /\ keyStr = << >>
    /\ ciphertext = NoArray
    /\ ciphertextInput = << >>
    /\ decryptedText = << >>
    /\ encryptionSbox = NoArray
    /\ visInitial

InitStore ==
    /\ initialState
    /\ timers = << >>
    /\ edits = 0
    /\ pc = "store"
    /\ idleOutsideStore

\* set({affineMatrix, constant, sbox, inverseSbox, isMatrixValid, metrics: null})
\* and then the subscription's listener, which the new sbox array triggers:
\* setTimeout(() => recalculateMetrics(), 100).  The function the listener
\* returns is not used by the store, so no earlier timer is cleared.
setSBox(m, c, regenerated) ==
    /\ edits' = edits + 1
    /\ matrix' = m
    /\ constant' = c
    /\ sbox' = regenerated.sbox
    /\ invSbox' = regenerated.inverseSbox
    /\ matrixValid' = regenerated.isMatrixValid
    /\ metrics' = NoMetrics
    /\ timers' = Append(timers, subscriptionTimer)
    /\ UNCHANGED << isCalculatingMetrics, textVars, visVars, pc, outsideStore >>

SetMatrixBit ==
    /\ pc = "store"
    /\ edits < MaxEdits
    /\ \E cell \in StoreCells, value \in BOOLEAN :
            LET m == setMatrixBit(matrix, cell[1], cell[2], value)
            IN  setSBox(m, constant, regenerateSBox(m, constant))

ToggleMatrixBit ==
    /\ pc = "store"
    /\ edits < MaxEdits
    /\ \E cell \in StoreCells :
            LET m == toggleMatrixBit(matrix, cell[1], cell[2])
            IN  setSBox(m, constant, regenerateSBox(m, constant))

SetMatrix ==
    /\ pc = "store"
    /\ edits < MaxEdits
    /\ \E m \in StoreMatrices :
            setSBox(m, constant, regenerateSBox(m, constant))

SetConstant ==
    /\ pc = "store"
    /\ edits < MaxEdits
    /\ \E c \in StoreConstants :
            setSBox(matrix, c, regenerateSBox(matrix, c))

LoadPreset ==
    /\ pc = "store"
    /\ edits < MaxEdits
    /\ \E preset \in {"K44", "AES"} :
            LET m == IF preset = "K44" THEN K44_MATRIX ELSE KAES_MATRIX
            IN  setSBox(m, AES_CONSTANT, regenerateSBox(m, AES_CONSTANT))

RandomizeMatrix ==
    /\ pc = "store"
    /\ edits < MaxEdits
    /\ \E m \in RandomMatrices :
            setSBox(m, constant, regenerateSBox(m, constant))

ClearMatrix ==
    /\ pc = "store"
    /\ edits < MaxEdits
    /\ setSBox(ZERO_MATRIX, constant,
               [sbox |-> EmptyArray, inverseSbox |-> EmptyArray, isMatrixValid |-> FALSE])

\* The subscription's timer fires: recalculateMetrics().
RecalculateMetrics ==
    /\ pc = "store"
    /\ timers # << >>
    /\ Head(timers).delay = 100
    /\ IF ~matrixValid \/ Length(sbox) # 256
       THEN /\ metrics' = NoMetrics
            /\ isCalculatingMetrics' = FALSE
            /\ timers' = Tail(timers)
       ELSE /\ isCalculatingMetrics' = TRUE
            /\ \E position \in laterPositions(Tail(timers)) :
                   timers' = insertAt(Tail(timers), position, computationTimer(sbox))
            /\ UNCHANGED metrics
    /\ UNCHANGED << matrix, constant, sbox, invSbox, matrixValid, edits, textVars,
                    visVars, pc, outsideStore >>

\* The timer of recalculateMetrics fires:
\* set({metrics: calculateAllMetrics(sbox), isCalculatingMetrics: false})
\* with the sbox the timer was set up with.
ComputeMetrics ==
    /\ pc = "store"
    /\ timers # << >>
    /\ Head(timers).delay = 10
    /\ metrics' = MetricsOf(Head(timers).sbox)
    /\ isCalculatingMetrics' = FALSE
    /\ timers' = Tail(timers)
    /\ UNCHANGED << matrix, constant, sbox, invSbox, matrixValid, edits, textVars,
                    visVars, pc, outsideStore >>

NextStore ==
    \/ SetMatrixBit
    \/ ToggleMatrixBit
    \/ SetMatrix
    \/ SetConstant
    \/ LoadPreset
    \/ RandomizeMatrix
    \/ ClearMatrix
    \/ RecalculateMetrics
    \/ ComputeMetrics

SpecStore ==
    InitStore /\ [][NextStore]_vars

\* A timer whose delay has passed is run by the event loop.
SpecStoreFair ==
    SpecStore /\ WF_vars(RecalculateMetrics) /\ WF_vars(ComputeMetrics)

\* C16: in no reachable store state is metrics non-null while holding
\* values computed from an S-box other than the store's current sbox: the
\* result of a computation that a later S-box change overtook is discarded.
C16_StaleMetricsDiscarded ==
    (pc = "store" /\ ~metrics.null) =>
        /\ matrixValid
        /\ \/ metrics.of = sbox
           \/ metricsValue(metrics) = calculateAllMetrics(sbox)

\* The metrics the store should hold for its current S-box, and no
\* computation under way.
metricsSettled ==
    /\ ~isCalculatingMetrics
    /\ metrics = IF matrixValid THEN MetricsOf(sbox) ELSE NoMetrics

\* C20: after the last action that changes sbox, once every pending timer
\* has fired, isCalculatingMetrics is false and metrics is
\* calculateAllMetrics(current sbox) if the matrix is valid, null if not;
\* and the timers do all fire, so the store comes to rest in such a state.
C20_MetricsRecomputed ==
    /\ []((pc = "store" /\ edits > 0 /\ timers = << >>) => metricsSettled)
    /\ <>[](pc = "store" /\ (edits = 0 \/ (timers = << >> /\ metricsSettled)))

\* Two S-box changes, the second to the AES matrix, all timers fired and
\* the metrics of the AES S-box in the store.
C20_Witness ==
    /\ pc = "store"
    /\ edits = 2
    /\ timers = << >>
    /\ matrix = KAES_MATRIX /\ constant = AES_CONSTANT
    /\ ~isCalculatingMetrics
    /\ ~metrics.null /\ metrics.of = sbox

(***************************************************************************)
(* useCryptoStore.ts and TextEncryptor.tsx: the text fields, Base64 and    *)
(* the Decrypt tab                                                         *)
(***************************************************************************)

\* The Base64 alphabet: A-Z, a-z, 0-9, + and /, as code units.
base64Unit(value) ==
    IF value < 26 THEN 65 + value
    ELSE IF value < 52 THEN 97 + (value - 26)
    ELSE IF value < 62 THEN 48 + (value - 52)
    ELSE IF value = 62 THEN 43
    ELSE 47

\* The value of a code unit of the alphabet, -1 for any other code unit.
base64Value(unit) ==
    IF unit >= 65 /\ unit <= 90 THEN unit - 65
    ELSE IF unit >= 97 /\ unit <= 122 THEN unit - 97 + 26
    ELSE IF unit >= 48 /\ unit <= 57 THEN unit - 48 + 52
    ELSE IF unit = 43 THEN 62
    ELSE IF unit = 47 THEN 63
    ELSE -1

\* btoa(String.fromCharCode(...bytes)): three bytes give four code units,
\* a last group of one or two bytes is padded with "=" (61).
btoa(bytes) ==
    LET n == Length(bytes)
        at(i) == IF i < n THEN bytes[i] ELSE 0
        group(g) ==
            << base64Unit(at(3 * g) \div 4),
               base64Unit((at(3 * g) % 4) * 16 + (at(3 * g + 1) \div 16)),
               IF 3 * g + 1 < n
               THEN base64Unit((at(3 * g + 1) % 16) * 4 + (at(3 * g + 2) \div 64))
               ELSE 61,
               IF 3 * g + 2 < n THEN base64Unit(at(3 * g + 2) % 64) ELSE 61 >>
    IN  Concat([g \in 1..((n + 2) \div 3) |-> group(g - 1)])

\* The code units String.prototype.trim removes.
WhiteSpace ==
    {9, 10, 11, 12, 13, 32, 160, 5760, 8232, 8233, 8239, 8287, 12288, 65279}
        \cup (8192..8202)

RECURSIVE trim(_)
trim(text) ==
    IF text = << >> THEN text
    ELSE IF Head(text) \in WhiteSpace THEN trim(Tail(text))
    ELSE IF text[Len(text)] \in WhiteSpace THEN trim(SubSeq(text, 1, Len(text) - 1))
    ELSE text

\* atob, then bytes[i] = binaryString.charCodeAt(i): ASCII whitespace is
\* removed, one or two "=" are dropped from the end of a text whose length
\* is a multiple of four, a length of 1 mod 4 or a code unit outside the
\* alphabet throws, and every four code units give three bytes (a last
\* group of two or three gives one or two).
atob(text) ==
    LET units == SelectSeq(text, LAMBDA unit : unit \notin {9, 10, 12, 13, 32})
        body == IF Len(units) % 4 = 0 /\ Len(units) > 0 /\ units[Len(units)] = 61
                THEN IF units[Len(units) - 1] = 61
                     THEN SubSeq(units, 1, Len(units) - 2)
                     ELSE SubSeq(units, 1, Len(units) - 1)
                ELSE units
        valueAt(i) == IF i <= Len(body) THEN base64Value(body[i]) ELSE 0
        triple(g) == ((valueAt(4 * g + 1) * 64 + valueAt(4 * g + 2)) * 64
                         + valueAt(4 * g + 3)) * 64 + valueAt(4 * g + 4)
    IN  IF Len(body) % 4 = 1 \/ \E i \in 1..Len(body) : base64Value(body[i]) = -1
        THEN Throw("atob")
        ELSE Return(NewArray([i \in 0..(((Len(body) * 6) \div 8) - 1) |->
                 CASE i % 3 = 0 -> triple(i \div 3) \div 65536
                   [] i % 3 = 1 -> (triple(i \div 3) \div 256) % 256
                   [] OTHER -> triple(i \div 3) % 256]))

\* error.message as code units; the text of atob's exception is the
\* browser's.
messageUnits(message) ==
    CASE message = "Invalid padding: empty data" ->
            << 73, 110, 118, 97, 108, 105, 100, 32, 112, 97, 100, 100, 105,
               110, 103, 58, 32, 101, 109, 112, 116, 121, 32, 100, 97, 116,
               97 >>
      [] message = "Invalid padding length" ->
            << 73, 110, 118, 97, 108, 105, 100, 32, 112, 97, 100, 100, 105,
               110, 103, 32, 108, 101, 110, 103, 116, 104 >>
      [] message = "Padding length exceeds data length" ->
            << 80, 97, 100, 100, 105, 110, 103, 32, 108, 101, 110, 103,
               116, 104, 32, 101, 120, 99, 101, 101, 100, 115, 32, 100, 97,
               116, 97, 32, 108, 101, 110, 103, 116, 104 >>
      [] message = "Invalid padding byte" ->
            << 73, 110, 118, 97, 108, 105, 100, 32, 112, 97, 100, 100, 105,
               110, 103, 32, 98, 121, 116, 101 >>
      [] OTHER ->
            << 70, 97, 105, 108, 101, 100, 32, 116, 111, 32, 101, 120, 101,
               99, 117, 116, 101, 32, 39, 97, 116, 111, 98, 39, 32, 111,
               110, 32, 39, 87, 105, 110, 100, 111, 119, 39, 58, 32, 84,
               104, 101, 32, 115, 116, 114, 105, 110, 103, 32, 116, 111,
               32, 98, 101, 32, 100, 101, 99, 111, 100, 101, 100, 32, 105,
               115, 32, 110, 111, 116, 32, 99, 111, 114, 114, 101, 99, 116,
               108, 121, 32, 101, 110, 99, 111, 100, 101, 100, 46 >>

\* `[Decryption Error: ${errorMsg}. Make sure the ciphertext is valid Base64
\* and you're using the correct S-box and key.]`
decryptionError(message) ==
    << 91, 68, 101, 99, 114, 121, 112, 116, 105, 111, 110, 32, 69, 114,
       114, 111, 114, 58, 32 >>
        \o messageUnits(message) \o
    << 46, 32, 77, 97, 107, 101, 32, 115, 117, 114, 101, 32, 116, 104, 101,
       32, 99, 105, 112, 104, 101, 114, 116, 101, 120, 116, 32, 105, 115,
       32, 118, 97, 108, 105, 100, 32, 66, 97, 115, 101, 54, 52, 32, 97,
       110, 100, 32, 121, 111, 117, 39, 114, 101, 32, 117, 115, 105, 110,
       103, 32, 116, 104, 101, 32, 99, 111, 114, 114, 101, 99, 116, 32, 83,
       45, 98, 111, 120, 32, 97, 110, 100, 32, 107, 101, 121, 46, 93 >>

\* "Hi" and "k".
StoreTexts ==
    {<< 72, 105 >>}

StoreKeys ==
    {<< 107 >>}

\* The store after MaxEdits - 1 uses of loadPreset('K44') with every timer
\* fired: the initial matrix and S-box, their metrics, no text yet.
InitStoreText ==
    /\ matrix = K44_MATRIX
    /\ constant = AES_CONSTANT
    /\ matrixValid = TRUE
    /\ sbox = initialSBox
    /\ invSbox = initialInvSBox
    /\ metrics = MetricsOf(initialSBox)
    /\ isCalculatingMetrics = FALSE
    /\ plaintext = << >>
    /\ keyStr = << >>
    /\ ciphertext = NoArray
    /\ ciphertextInput = << >>
    /\ decryptedText = << >>
    /\ encryptionSbox = NoArray
    /\ timers = << >>
    /\ edits = MaxEdits - 1
    /\ visInitial
    /\ pc = "store"
    /\ idleOutsideStore

notText ==
    << sboxVars, matrixValid, metrics, isCalculatingMetrics, timers, edits,
       visVars, pc, outsideStore >>

SetPlaintext ==
    /\ pc = "store"
    /\ \E text \in StoreTexts : plaintext' = text
    /\ UNCHANGED << keyStr, ciphertext, ciphertextInput, decryptedText, encryptionSbox,
                    notText >>

SetEncryptionKey ==
    /\ pc = "store"
    /\ \E text \in StoreKeys : keyStr' = text
    /\ UNCHANGED << plaintext, ciphertext, ciphertextInput, decryptedText, encryptionSbox,
                    notText >>

\* The user pastes the Base64 text the Encrypt tab shows for the ciphertext.
SetCiphertextInput ==
    /\ pc = "store"
    /\ ~ciphertext.null
    /\ ciphertextInput' = btoa(ciphertext.array)
    /\ UNCHANGED << plaintext, keyStr, ciphertext, decryptedText, encryptionSbox,
                    notText >>

PerformEncryption ==
    /\ pc = "store"
    /\ matrixValid /\ plaintext # << >> /\ keyStr # << >>
    /\ ciphertext' = ArrayOf(encrypt(plaintext, keyStr, sbox))
    /\ decryptedText' = << >>
    /\ encryptionSbox' = ArrayOf(sbox)
    /\ UNCHANGED << plaintext, keyStr, ciphertextInput, notText >>

PerformDecryptionFromInput ==
    /\ pc = "store"
    /\ matrixValid /\ ciphertextInput # << >> /\ keyStr # << >>
    /\ LET decoded == atob(trim(ciphertextInput))
           outcome == IF decoded.ok THEN decrypt(decoded.value, keyStr, sbox) ELSE decoded
       IN  IF outcome.ok
           THEN /\ decryptedText' = outcome.value
                /\ ciphertext' = ArrayOf(decoded.value)
           ELSE /\ decryptedText' = decryptionError(outcome.error)
                /\ UNCHANGED ciphertext
    /\ UNCHANGED << plaintext, keyStr, ciphertextInput, encryptionSbox, notText >>

NextStoreText ==
    \/ NextStore
    \/ SetPlaintext
    \/ SetEncryptionKey
    \/ SetCiphertextInput
    \/ PerformEncryption
    \/ PerformDecryptionFromInput

SpecStoreText ==
    InitStoreText /\ [][NextStoreText]_vars

\* C19: after performEncryption, matrix edits that end in a valid matrix
\* and the Decrypt tab's action on the Base64 of the produced ciphertext
\* with the same key, decryptedText is the original plaintext.  In this
\* specification the plaintext and the key keep the value first typed, the
\* pasted text is the Base64 of a ciphertext performEncryption produced, and
\* only performDecryptionFromInput gives decryptedText a value other than ''.
C19_DecryptTabRemembersSBox ==
    (pc = "store" /\ decryptedText # << >>) => decryptedText = plaintext

(***************************************************************************)
(* useCryptoStore.ts: further properties of the store                      *)
(***************************************************************************)

\* A timer set up by recalculateMetrics has not fired yet.
computationPending ==
    \E i \in 1..Len(timers) : timers[i].delay = 10

\* C30: isCalculatingMetrics is true in every store state in which a
\* computation set up by recalculateMetrics is still pending, also when
\* several recalculateMetrics calls overlap, and false whenever none is
\* pending.
C30_CalculatingWhilePending ==
    pc = "store" => (isCalculatingMetrics <=> computationPending)

\* C22: in every state reached through the matrix actions the isMatrixValid
\* flag equals isMatrixValid(affineMatrix); when it is true, sbox is
\* generateSBox(affineMatrix, constant), a permutation of 0..255, and
\* inverseSbox is its inverse; when it is false both are empty.
C22_StoreConsistent ==
    pc = "store" =>
        /\ matrixValid = isMatrixValid(matrix)
        /\ IF matrixValid
           THEN /\ sbox = generateSBox(matrix, constant)
                /\ Length(sbox) = 256
                /\ isSBoxBijective(sbox)
                /\ invSbox = generateInverseSBox(sbox)
                /\ \A x \in Bytes : invSbox[sbox[x]] = x /\ sbox[invSbox[x]] = x
           ELSE sbox = EmptyArray /\ invSbox = EmptyArray

\* The constant set to 0 and then the identity matrix: a valid matrix other
\* than the presets, with its S-box.
C22_Witness ==
    /\ pc = "store"
    /\ edits = 2
    /\ matrixValid
    /\ matrix = IDENTITY_MATRIX /\ constant = 0
    /\ Length(sbox) = 256

(***************************************************************************)
(* useCryptoStore.ts: generateRandomValidMatrix and randomizeMatrix        *)
(***************************************************************************)

\* const maxAttempts = 1000
maxAttempts ==
    1000

\* Outcomes of Array.from({ length: 8 }, () => Math.floor(Math.random() * 256)):
\* two invertible matrices and a singular one.
DrawChoices ==
    {IDENTITY_MATRIX, KAES_MATRIX, ZERO_MATRIX}

\* Variant of drawnOrK44: the matrix of the last draw is returned as it is.
drawnAsIs(m) ==
    m

\* if (!isMatrixValid(matrix)) return [...K44_MATRIX]; return matrix;
drawnOrK44(m) ==
    IF ~isMatrixValid(m) THEN K44_MATRIX ELSE m

\* The store as created, randomizeMatrix called, generateRandomValidMatrix
\* about to enter its loop.
InitRandom ==
    /\ initialState
    /\ timers = << >>
    /\ edits = 0
    /\ attempts = 0
    /\ drawn = EmptyArray
    /\ pc = "randomize"
    /\ result = None
    /\ blockIdle /\ padIdle /\ matIdle /\ gfIdle /\ schedIdle
    /\ inputMask = None /\ maxBias = None
    /\ imageIdle /\ crossIdle

\* do { matrix = ...; attempts++; } while (!isMatrixValid(matrix) && attempts < maxAttempts)
\* one iteration: the first is unconditional.
Draw ==
    /\ pc = "randomize"
    /\ IF attempts = 0 THEN TRUE
       ELSE ~isMatrixValid(drawn) /\ attempts < maxAttempts
    /\ \E m \in DrawChoices : drawn' = m
    /\ attempts' = attempts + 1
    /\ UNCHANGED << sboxVars, blockVars, msgVars, padVars, matVars, metVars, gfVars,
                    schedVars, storeVars, visVars, imageVars, crossVars, pc >>

\* The loop is left and generateRandomValidMatrix returns; its locals go.
ReturnMatrix ==
    /\ pc = "randomize"
    /\ attempts > 0
    /\ ~(~isMatrixValid(drawn) /\ attempts < maxAttempts)
    /\ drawn' = drawnOrK44(drawn)
    /\ attempts' = 0
    /\ pc' = "store"
    /\ UNCHANGED << sboxVars, blockVars, msgVars, padVars, matVars, metVars, gfVars,
                    schedVars, storeVars, visVars, imageVars, crossVars >>

\* The rest of randomizeMatrix, with the matrix returned.
RandomizeReturned ==
    /\ pc = "store"
    /\ edits = 0
    /\ drawn # EmptyArray
    /\ setSBox(drawn, constant, regenerateSBox(drawn, constant))

NextRandom ==
    \/ Draw
    \/ ReturnMatrix
    \/ RandomizeReturned

SpecRandom ==
    InitRandom /\ [][NextRandom]_vars

\* randomizeMatrix has set the store.
randomized ==
    pc = "store" /\ edits = 1

\* C24: randomizeMatrix terminates after at most 1000 draws (the count of
\* draws never passes 1000 and every step inside generateRandomValidMatrix
\* is a counted draw or its return) and leaves the store with an invertible affineMatrix, isMatrixValid
\* true and a 256-entry bijective sbox; when no draw is invertible the
\* matrix is K44.
C24_RandomizeTerminatesValid ==
    /\ [](pc = "randomize" => attempts <= maxAttempts)
    /\ [][pc = "randomize" => (attempts' = attempts + 1 \/ pc' = "store")]_vars
    /\ [](randomized =>
            /\ isMatrixValid(matrix)
            /\ matrixValid
            /\ Length(sbox) = 256
            /\ isSBoxBijective(sbox)
            /\ (drawn \notin DrawChoices => matrix = K44_MATRIX))

\* No draw was invertible (K44 is not among the draws) and the store holds
\* the K44 matrix.
C24_Witness ==
    /\ randomized
    /\ drawn = K44_MATRIX
    /\ matrix = K44_MATRIX
    /\ matrixValid

(***************************************************************************)
(* aes.ts: encryptBlockWithSteps against encryptBlock and keyExpansion      *)
(***************************************************************************)

\* C26: the ciphertext encryptBlockWithSteps returns equals
\* encryptBlock(block, key, sbox) and the bytes of the state in the last,
\* 41st step; the state of the first step is the input block; and the
\* roundKeys returned are the 11 round keys of keyExpansion(key, sbox).
C26_StepsAgreeWithEncryptBlock ==
    pc = "traced" =>
        LET traced == encryptBlockWithSteps(block, key, sbox)
        IN  /\ traced.steps = steps
            /\ Len(steps) = 41
            /\ traced.ciphertext = encrypted
            /\ stateToBytes(steps[41].state) = traced.ciphertext
            /\ stateToBytes(steps[1].state) = block
            /\ Length(traced.roundKeys) = 11
            /\ traced.roundKeys = keyExpansion(key, sbox)

\* A traced block whose ciphertext differs from it and whose first round
\* key changes the state.
C26_Witness ==
    /\ pc = "traced"
    /\ Len(steps) = 41
    /\ stateToBytes(steps[41].state) = encrypted
    /\ encrypted # block
    /\ steps[2].state # steps[1].state

(***************************************************************************)
(* sbox.ts: generateInverseSBox on tables that are not permutations        *)
(***************************************************************************)

\* C25: generateInverseSBox returns for every 256-entry table, bijective or
\* not: for every value y that occurs in the table inv[y] is the largest
\* index x with sbox[x] = y, for every y that does not occur inv[y] stays
\* unset, and on a bijective table all 256 entries are set.
C25_InverseOfAnyTable ==
    pc = "inverted" =>
        /\ Length(invSbox) = 256
        /\ \A y \in Bytes :
               LET xs == {x \in Bytes : sbox[x] = y}
               IN  IF xs = {} THEN invSbox[y] = Undefined
                   ELSE invSbox[y] = Max(xs)
        /\ isSBoxBijective(sbox) => \A y \in Bytes : invSbox[y] # Undefined

\* The table of a singular matrix other than the cleared one: a value that
\* never occurs, and the value at index 0 occurring again later.
C25_Witness ==
    /\ pc = "inverted"
    /\ matrix # ZERO_MATRIX
    /\ ~isSBoxBijective(sbox)
    /\ \E y \in Bytes : invSbox[y] = Undefined
    /\ invSbox[sbox[0]] > 0

(***************************************************************************)
(* SpecKey: encrypt and decrypt under two key strings                      *)
(***************************************************************************)

\* "abc", "abc" and a NUL, "abd", sixteen letters, the same sixteen letters
\* followed by one and by two more, and fifteen letters followed by
\* U+1F600, whose surrogate pair the sixteenth position splits.
KeyStrings ==
    {<< 97, 98, 99 >>, << 97, 98, 99, 0 >>, << 97, 98, 100 >>,
     [i \in 1..16 |-> 96 + i],
     [i \in 1..17 |-> IF i <= 16 THEN 96 + i ELSE 120],
     [i \in 1..18 |-> IF i <= 16 THEN 96 + i ELSE 121],
     [i \in 1..17 |-> IF i <= 15 THEN 96 + i ELSE IF i = 16 THEN 55357 ELSE 56832],
     [i \in 1..16 |-> IF i <= 15 THEN 96 + i ELSE 55357]}

\* "Hi" and seventeen times "A".
KeyTexts ==
    {<< 72, 105 >>, [i \in 1..17 |-> 65]}

InitKey ==
    /\ plaintext \in KeyTexts
    /\ keyStr \in KeyStrings
    /\ otherKeyStr \in KeyStrings
    /\ sbox \in MsgSBoxChoices
    /\ ciphertext = None /\ otherCiphertext = None
    /\ result = None /\ otherResult = None
    /\ matrix = None /\ constant = None /\ invSbox = None
    /\ pc = "start"
    /\ blockIdle /\ padIdle
    /\ matIdle /\ metIdle /\ gfIdle /\ schedIdle /\ storeIdle
    /\ visIdle /\ randIdle /\ imageIdle

notKey ==
    << sboxVars, blockVars, padVars, matVars, metVars, gfVars, schedVars, storeVars,
       visVars, randVars, imageVars >>

\* encrypt(plaintext, key, sbox) under each of the two key strings.
EncryptBoth ==
    /\ pc = "start"
    /\ ciphertext' = encrypt(plaintext, keyStr, sbox)
    /\ otherCiphertext' = encrypt(plaintext, otherKeyStr, sbox)
    /\ pc' = "encrypted"
    /\ UNCHANGED << plaintext, keyStr, otherKeyStr, result, otherResult, notKey >>

\* decrypt of each ciphertext under the other key string.
DecryptCrossed ==
    /\ pc = "encrypted"
    /\ result' = decrypt(otherCiphertext, keyStr, sbox)
    /\ otherResult' = decrypt(ciphertext, otherKeyStr, sbox)
    /\ pc' = "decrypted"
    /\ UNCHANGED << plaintext, keyStr, otherKeyStr, ciphertext, otherCiphertext, notKey >>

NextKey ==
    \/ EncryptBoth
    \/ DecryptCrossed

SpecKey ==
    InitKey /\ [][NextKey]_vars

\* The first 16 characters of a key string, right-padded with NUL to 16.
normalisedKey(keyString) ==
    SubSeq(keyString, 1, Min({16, Len(keyString)}))
        \o [i \in 1..(16 - Min({16, Len(keyString)})) |-> 0]

\* C27: two key strings that are equal after normalisation (the first 16
\* characters, right-padded with NUL to 16) give identical ciphertexts for
\* every plaintext and S-box, and each decrypts the other's ciphertext to
\* the plaintext.
C27_KeyNormalisation ==
    (pc \in {"encrypted", "decrypted"}
        /\ normalisedKey(keyStr) = normalisedKey(otherKeyStr)) =>
        /\ ciphertext = otherCiphertext
        /\ pc = "decrypted" =>
               /\ result = Return(plaintext)
               /\ otherResult = Return(plaintext)

\* "abc" and "abc" followed by a NUL, each having decrypted the other's
\* ciphertext.
C27_Witness ==
    /\ pc = "decrypted"
    /\ keyStr = << 97, 98, 99 >>
    /\ otherKeyStr = << 97, 98, 99, 0 >>
    /\ ciphertext = otherCiphertext
    /\ result = Return(plaintext)

(***************************************************************************)
(* ImageEncryptor.tsx: encryptImage and decryptImage                       *)
(***************************************************************************)

\* rgbData: data[i], data[i + 1], data[i + 2] of every pixel, in order.
rgbOf(pixels) ==
    NewArray([j \in 0..(3 * (Length(pixels) \div 4) - 1) |->
        pixels[4 * (j \div 3) + (j % 3)]])

\* while (rgbData.length % 16 !== 0) rgbData.push(0)
zeroPadded(rgbData) ==
    NewArray([j \in 0..(16 * ((Length(rgbData) + 15) \div 16) - 1) |->
        IF j < Length(rgbData) THEN rgbData[j] ELSE 0])

\* The output pixel data: out[i], out[i + 1], out[i + 2] are the next three
\* bytes of rgbOut (?? 0 when it has run out) and out[i + 3] = 255.
reconstructed(pixels, rgbOut) ==
    NewArray([i \in 0..(Length(pixels) - 1) |->
        IF i % 4 = 3 THEN 255
        ELSE LET rgbIdx == 3 * (i \div 4) + (i % 4)
             IN  IF rgbIdx < Length(rgbOut) THEN rgbOut[rgbIdx] ELSE 0])

\* new ImageData(data, width, height)
ImageData(pixels, width, height) ==
    [data |-> pixels, width |-> width, height |-> height]

\* The callback of encryptImage: every 16 bytes of the padded RGB data
\* through encryptBlock, then the image is rebuilt.
encryptedImageOf(image, keyString, table) ==
    LET k == encode(padEndSlice(keyString))
        encryptedRgb == encryptBlocks(zeroPadded(rgbOf(image.data)), k, table)
    IN  ImageData(reconstructed(image.data, encryptedRgb), image.width, image.height)

\* The callback of decryptImage, with decryptBlock.
decryptedImageOf(image, keyString, table) ==
    LET k == encode(padEndSlice(keyString))
        decryptedRgb == decryptBlocks(zeroPadded(rgbOf(image.data)), k, table)
    IN  ImageData(reconstructed(image.data, decryptedRgb), image.width, image.height)

\* The images differ in their pixel values by a seed up to MaxImageSeed.
MaxImageSeed ==
    1

\* width x height: 3, 18 and 48 RGB bytes.
ImageSizes ==
    {<< 1, 1 >>, << 3, 2 >>, << 4, 4 >>}

\* An image as getImageData gives it: four bytes per pixel.
ImageOf(size, seed) ==
    ImageData(NewArray([i \in 0..(4 * size[1] * size[2] - 1) |->
                  IF i % 4 = 3 THEN 255 - seed ELSE (29 * i + 101 * seed + 7) % 256]),
              size[1], size[2])

ImageChoices ==
    {ImageOf(size, seed) : size \in ImageSizes, seed \in 0..MaxImageSeed}

\* useState<ImageData | null>(null)
NoImage ==
    [data |-> EmptyArray, width |-> 0, height |-> 0]

InitImage ==
    /\ originalImage \in ImageChoices
    /\ imageKey \in KeyStrChoices
    /\ sbox \in MsgSBoxChoices
    /\ encryptedImage = NoImage
    /\ decryptedImage = NoImage
    /\ isProcessing = FALSE
    /\ matrix = None /\ constant = None /\ invSbox = None
    /\ pc = "loaded"
    /\ blockIdle /\ msgIdle /\ padIdle
    /\ matIdle /\ metIdle /\ gfIdle /\ schedIdle /\ storeIdle
    /\ visIdle /\ randIdle /\ crossIdle

notImage ==
    << sboxVars, blockVars, msgVars, padVars, matVars, metVars, gfVars, schedVars,
       storeVars, visVars, randVars, crossVars >>

\* encryptImage up to its setTimeout.
EncryptImage ==
    /\ pc = "loaded"
    /\ originalImage # NoImage /\ imageKey # << >>
    /\ isProcessing' = TRUE
    /\ pc' = "encrypting"
    /\ UNCHANGED << originalImage, encryptedImage, decryptedImage, imageKey, notImage >>

\* The callback encryptImage set up.
EncryptImageCallback ==
    /\ pc = "encrypting"
    /\ encryptedImage' = encryptedImageOf(originalImage, imageKey, sbox)
    /\ isProcessing' = FALSE
    /\ pc' = "encrypted"
    /\ UNCHANGED << originalImage, decryptedImage, imageKey, notImage >>

\* decryptImage up to its setTimeout.
DecryptImage ==
    /\ pc = "encrypted"
    /\ encryptedImage # NoImage /\ imageKey # << >>
    /\ isProcessing' = TRUE
    /\ pc' = "decrypting"
    /\ UNCHANGED << originalImage, encryptedImage, decryptedImage, imageKey, notImage >>

\* The callback decryptImage set up.
DecryptImageCallback ==
    /\ pc = "decrypting"
    /\ decryptedImage' = decryptedImageOf(encryptedImage, imageKey, sbox)
    /\ isProcessing' = FALSE
    /\ pc' = "decrypted"
    /\ UNCHANGED << originalImage, encryptedImage, imageKey, notImage >>

NextImage ==
    \/ EncryptImage
    \/ EncryptImageCallback
    \/ DecryptImage
    \/ DecryptImageCallback

SpecImage ==
    InitImage /\ [][NextImage]_vars

\* C29: for every image size, key and valid S-box, decryptImage applied to
\* the pixel data encryptImage produced with the same key and S-box gives
\* back the R, G and B byte of every pixel of the original image, also when
\* the RGB byte count 3 * width * height is not a multiple of 16.
C29_ImageRoundTrip ==
    pc = "decrypted" =>
        \A i \in 0..(Length(originalImage.data) - 1) :
            i % 4 # 3 => decryptedImage.data[i] = originalImage.data[i]

(***************************************************************************)
(* useCryptoStore.ts: performDecryption, encryptWithVisualization, the     *)
(* step navigation and clearEncryptionData                                 *)
(***************************************************************************)

\* '[Decryption Error: No encryption S-box found. Please encrypt first.]'
noEncryptionSBoxError ==
    << 91, 68, 101, 99, 114, 121, 112, 116, 105, 111, 110, 32, 69, 114,
       114, 111, 114, 58, 32, 78, 111, 32, 101, 110, 99, 114, 121, 112,
       116, 105, 111, 110, 32, 83, 45, 98, 111, 120, 32, 102, 111, 117,
       110, 100, 46, 32, 80, 108, 101, 97, 115, 101, 32, 101, 110, 99,
       114, 121, 112, 116, 32, 102, 105, 114, 115, 116, 46, 93 >>

\* `[Decryption Error: ${errorMsg}. Make sure you use the same key used for
\* encryption.]`
sameKeyError(message) ==
    << 91, 68, 101, 99, 114, 121, 112, 116, 105, 111, 110, 32, 69, 114,
       114, 111, 114, 58, 32 >>
        \o messageUnits(message) \o
    << 46, 32, 77, 97, 107, 101, 32, 115, 117, 114, 101, 32, 121, 111,
       117, 32, 117, 115, 101, 32, 116, 104, 101, 32, 115, 97, 109, 101,
       32, 107, 101, 121, 32, 117, 115, 101, 100, 32, 102, 111, 114, 32,
       101, 110, 99, 114, 121, 112, 116, 105, 111, 110, 46, 93 >>

notVis ==
    << sboxVars, matrixValid, metrics, isCalculatingMetrics, timers, edits,
       pc, outsideStore >>

\* Variant of PerformDecryption: the current S-box, when it has its 256
\* entries, is used instead of the stored one.
PerformDecryptionCurrentSBox ==
    /\ pc = "store"
    /\ ~ciphertext.null /\ keyStr # << >>
    /\ IF encryptionSbox.null \/ Length(encryptionSbox.array) # 256
       THEN decryptedText' = noEncryptionSBoxError
       ELSE LET table == IF Length(sbox) = 256 THEN sbox ELSE encryptionSbox.array
                outcome == decrypt(ciphertext.array, keyStr, table)
            IN  decryptedText' = IF outcome.ok THEN outcome.value
                                 ELSE sameKeyError(outcome.error)
    /\ UNCHANGED << plaintext, keyStr, ciphertext, ciphertextInput, encryptionSbox,
                    notText >>

PerformDecryption ==
    /\ pc = "store"
    /\ ~ciphertext.null /\ keyStr # << >>
    /\ IF encryptionSbox.null \/ Length(encryptionSbox.array) # 256
       THEN decryptedText' = noEncryptionSBoxError
       ELSE LET outcome == decrypt(ciphertext.array, keyStr, encryptionSbox.array)
            IN  decryptedText' = IF outcome.ok THEN outcome.value
                                 ELSE sameKeyError(outcome.error)
    /\ UNCHANGED << plaintext, keyStr, ciphertext, ciphertextInput, encryptionSbox,
                    notText >>

\* Base64 texts that come from outside the store: the ciphertext of "OK"
\* under the key "k" and the initial S-box, made in an earlier session.
PastedTexts ==
    {btoa(encrypt(<< 79, 75 >>, << 107 >>, initialSBox))}

\* setCiphertextInput with a text pasted from outside.
PasteCiphertextInput ==
    /\ pc = "store"
    /\ \E text \in PastedTexts : ciphertextInput' = text
    /\ UNCHANGED << plaintext, keyStr, ciphertext, decryptedText, encryptionSbox,
                    notText >>

EncryptWithVisualization ==
    /\ pc = "store"
    /\ matrixValid /\ plaintext # << >> /\ keyStr # << >>
    /\ currentStepIndex' = 0
    /\ LET blk == encode(padEndSlice(plaintext))
           k == encode(padEndSlice(keyStr))
           traced == encryptBlockWithSteps(blk, k, sbox)
       IN  /\ encryptionSteps' = traced.steps
           /\ stepRoundKeys' = traced.roundKeys
           /\ ciphertext' = ArrayOf(traced.ciphertext)
           /\ encryptionSbox' = ArrayOf(sbox)
    /\ UNCHANGED << plaintext, keyStr, ciphertextInput, decryptedText, notVis >>

\* The indices setCurrentStepIndex is called with: the ends of the trace and
\* one position beyond each.
StepIndexChoices ==
    {-1, 0, 1, 40, 41}

SetCurrentStepIndex ==
    /\ pc = "store"
    /\ \E index \in StepIndexChoices :
          IF index >= 0 /\ index < Length(encryptionSteps)
          THEN currentStepIndex' = index
          ELSE UNCHANGED currentStepIndex
    /\ UNCHANGED << encryptionSteps, stepRoundKeys, textVars, notVis >>

\* Variant of NextStep: the index is advanced without the comparison with
\* the length.
NextStepUnguarded ==
    /\ pc = "store"
    /\ currentStepIndex' = currentStepIndex + 1
    /\ currentStepIndex < 41
    /\ UNCHANGED << encryptionSteps, stepRoundKeys, textVars, notVis >>

NextStep ==
    /\ pc = "store"
    /\ IF currentStepIndex < Length(encryptionSteps) - 1
       THEN currentStepIndex' = currentStepIndex + 1
       ELSE UNCHANGED currentStepIndex
    /\ UNCHANGED << encryptionSteps, stepRoundKeys, textVars, notVis >>

PrevStep ==
    /\ pc = "store"
    /\ IF currentStepIndex > 0
       THEN currentStepIndex' = currentStepIndex - 1
       ELSE UNCHANGED currentStepIndex
    /\ UNCHANGED << encryptionSteps, stepRoundKeys, textVars, notVis >>

ClearEncryptionData ==
    /\ pc = "store"
    /\ plaintext' = << >>
    /\ keyStr' = << >>
    /\ ciphertext' = NoArray
    /\ ciphertextInput' = << >>
    /\ decryptedText' = << >>
    /\ encryptionSbox' = NoArray
    /\ UNCHANGED notText

NextStoreDec ==
    \/ NextStore
    \/ SetPlaintext
    \/ SetEncryptionKey
    \/ PasteCiphertextInput
    \/ PerformEncryption
    \/ PerformDecryption
    \/ PerformDecryptionFromInput
    \/ EncryptWithVisualization
    \/ ClearEncryptionData

SpecStoreDec ==
    InitStoreText /\ [][NextStoreDec]_vars

NextStoreVis ==
    \/ NextStore
    \/ SetPlaintext
    \/ SetEncryptionKey
    \/ EncryptWithVisualization
    \/ SetCurrentStepIndex
    \/ NextStep
    \/ PrevStep
    \/ ClearEncryptionData

SpecStoreVis ==
    InitStoreText /\ [][NextStoreVis]_vars

C21_WitnessNoSBox ==
    pc = "store" /\ decryptedText = noEncryptionSBoxError

\* The ciphertext is one the store makes of a text and a key with the S-box
\* table: by performEncryption or by encryptWithVisualization.
producedWith(bytes, table) ==
    \E text \in StoreTexts, k \in StoreKeys :
        \/ bytes = encrypt(text, k, table)
        \/ bytes = encryptBlockWithSteps(encode(padEndSlice(text)),
                                         encode(padEndSlice(k)), table).ciphertext

\* C28: in every reachable store state with a non-null ciphertext,
\* encryptionSbox is non-null, has 256 entries and is the S-box with which
\* that ciphertext was produced.
C28_CiphertextHasItsSBox ==
    (pc = "store" /\ ~ciphertext.null) =>
        /\ ~encryptionSbox.null
        /\ Length(encryptionSbox.array) = 256
        /\ producedWith(ciphertext.array, encryptionSbox.array)

\* C23: encryptionSteps has length 0 or 41 and currentStepIndex lies between
\* 0 and max(0, length - 1) in every store state; nextStep at the last step,
\* prevStep at step 0 and setCurrentStepIndex with an index out of range
\* leave currentStepIndex as it is, and encryptWithVisualization sets it to 0.
C23_StepNavigation ==
    /\ [](pc = "store" =>
             /\ Length(encryptionSteps) \in {0, 41}
             /\ 0 <= currentStepIndex
             /\ currentStepIndex <= IF Length(encryptionSteps) = 0 THEN 0
                                    ELSE Length(encryptionSteps) - 1)
    /\ [][(NextStep /\ currentStepIndex >= Length(encryptionSteps) - 1)
             => currentStepIndex' = currentStepIndex]_vars
    /\ [][(PrevStep /\ currentStepIndex = 0)
             => currentStepIndex' = currentStepIndex]_vars
    /\ [][SetCurrentStepIndex =>
             \/ currentStepIndex' = currentStepIndex
             \/ /\ currentStepIndex' \in StepIndexChoices
                /\ 0 <= currentStepIndex'
                /\ currentStepIndex' < Length(encryptionSteps)]_vars
    /\ [][(currentStepIndex' = 0 /\ Length(encryptionSteps') = 41)
             \/ ~EncryptWithVisualization]_vars

\* The last of the 41 steps is shown.
C23_Witness ==
    pc = "store" /\ Length(encryptionSteps) = 41 /\ currentStepIndex = 40


====
